---- MODULE Spec2Model ----
(***************************************************************************)
(* Model of the EryAI engine PoC: the in-memory rate limiter               *)
(* (src/lib/rateLimit.js), the security judge and the Mistral client       *)
(* (src/lib/securityJudge.js), the datastore queries and the chat engine   *)
(* (src/lib/db.js) and the HTTP handler of POST /api/chat (src/server.js). *)
(***************************************************************************)
EXTENDS Integers, Naturals, Sequences, FiniteSets, TLC

(***************************************************************************)
(* Bounds of the model.                                                    *)
(***************************************************************************)
\* number of times the wall clock advances in one behaviour
MaxTicks == 2
\* number of checkRateLimit calls of the second client when the limiter is
\* exercised on its own
MaxOtherCalls == 1
\* number of pieces of a classifier reply
MaxReplyToks == 3
\* number of requests that enter handleChat in one behaviour
MaxTurns == 2
\* number of rows of a history given to callMistral on its own
MaxHistory == 2
\* number of chunks of a stream answered to callMistral on its own
MaxChunks == 2
MaxLookups == 2

(***************************************************************************)
(* Program constants.                                                      *)
(***************************************************************************)
\* CONFIG.windowMs
windowMs == 30000
\* CONFIG.maxRequests
maxRequests == 10
\* CONFIG.cleanupIntervalMs
cleanupIntervalMs == 60000

\* client keys (what getClientIP returns)
Keys == {"ipA", "ipB", "unknown"}

\* the clients that call the limiter when it is exercised on its own
GateKeys == {"ipA", "ipB"}

\* the request slots: the invocations of handleRequest that may be in flight
Slots == {"r1", "r2"}


\* the steps by which Date.now() advances between two events (milliseconds)
Deltas == {1, windowMs, 2 * windowMs}

VARIABLES
    now,            \* Date.now(), in ms since the module was loaded
    ticks,          \* how often the clock advanced
    nextCleanup,    \* earliest time at which the setInterval sweep fires next
    requestCounts,  \* the Map: client key -> [count, windowStart]
    admitted,       \* history: per key, the times of its latest admissions
    lastCheck,      \* history: the latest checkRateLimit call and its result
    otherCalls,     \* how many direct calls the second client made
    judgeIn,        \* analyzePromptSafety on its own: the input
    judgeOut,       \* analyzePromptSafety on its own: the verdict
    pc,             \* per request slot: the await at which handleRequest stands
    turn,           \* per request slot: the local variables of the request
    resp,           \* per request slot: the HTTP response written
    fx,             \* history: per request slot, the components it invoked
    chat_sessions,  \* table chat_sessions: id -> row
    chat_messages,  \* table chat_messages, in creation order
    turns,          \* how many requests entered handleChat
    updateIn,       \* history: the last call of updateSession made on its own
    mistralCall,    \* history: the last call of callMistral made on its own
    lookups         \* history: the calls of getCustomerBySlug made on their own

gateVars == <<now, ticks, nextCleanup, requestCounts, admitted, lastCheck, otherCalls>>
judgeVars == <<judgeIn, judgeOut>>
chatVars == <<pc, turn, resp, fx, chat_sessions, chat_messages, turns>>
vars == <<now, ticks, nextCleanup, requestCounts, admitted, lastCheck, otherCalls,
          judgeIn, judgeOut, pc, turn, resp, fx, chat_sessions, chat_messages, turns,
          updateIn, mistralCall, lookups>>

\* no call made yet
NoCall == [key |-> "none"]

\* Math.ceil(a / b) for b > 0
Ceil(a, b) == -((-a) \div b)

\* Map.set(k, e)
MapSet(m, k, e) == [x \in (DOMAIN m) \cup {k} |-> IF x = k THEN e ELSE m[x]]

\* Map.delete for every key of ks
MapDelete(m, ks) == [x \in (DOMAIN m) \ ks |-> m[x]]

\* checkRateLimit whose increment is lost (the count is read, and the write
\* of count + 1 does not reach the table)
checkRateLimit_lostUpdate(tbl, clientIP, t) ==
    IF clientIP \notin DOMAIN tbl \/ (t - tbl[clientIP].windowStart) > windowMs
    THEN [table  |-> MapSet(tbl, clientIP, [count |-> 1, windowStart |-> t]),
          result |-> [allowed |-> TRUE, remaining |-> maxRequests - 1]]
    ELSE IF tbl[clientIP].count >= maxRequests
    THEN [table  |-> tbl,
          result |-> [allowed |-> FALSE, remaining |-> 0,
                      retryAfter |-> Ceil(windowMs - (t - tbl[clientIP].windowStart), 1000)]]
    ELSE [table  |-> tbl,
          result |-> [allowed |-> TRUE,
                      remaining |-> maxRequests - (tbl[clientIP].count + 1)]]

\* checkRateLimit that resets the window already when now - windowStart = windowMs
checkRateLimit_resetAtBoundary(tbl, clientIP, t) ==
    IF clientIP \notin DOMAIN tbl \/ (t - tbl[clientIP].windowStart) >= windowMs
    THEN [table  |-> MapSet(tbl, clientIP, [count |-> 1, windowStart |-> t]),
          result |-> [allowed |-> TRUE, remaining |-> maxRequests - 1]]
    ELSE IF tbl[clientIP].count >= maxRequests
    THEN [table  |-> tbl,
          result |-> [allowed |-> FALSE, remaining |-> 0,
                      retryAfter |-> Ceil(windowMs - (t - tbl[clientIP].windowStart), 1000)]]
    ELSE [table  |-> MapSet(tbl, clientIP,
                            [count |-> tbl[clientIP].count + 1,
                             windowStart |-> tbl[clientIP].windowStart]),
          result |-> [allowed |-> TRUE,
                      remaining |-> maxRequests - (tbl[clientIP].count + 1)]]

\* checkRateLimit that starts the window anew when it denies
checkRateLimit_denialExtends(tbl, clientIP, t) ==
    IF clientIP \notin DOMAIN tbl \/ (t - tbl[clientIP].windowStart) > windowMs
    THEN [table  |-> MapSet(tbl, clientIP, [count |-> 1, windowStart |-> t]),
          result |-> [allowed |-> TRUE, remaining |-> maxRequests - 1]]
    ELSE IF tbl[clientIP].count >= maxRequests
    THEN [table  |-> MapSet(tbl, clientIP,
                            [count |-> tbl[clientIP].count, windowStart |-> t]),
          result |-> [allowed |-> FALSE, remaining |-> 0,
                      retryAfter |-> Ceil(windowMs - (t - tbl[clientIP].windowStart), 1000)]]
    ELSE [table  |-> MapSet(tbl, clientIP,
                            [count |-> tbl[clientIP].count + 1,
                             windowStart |-> tbl[clientIP].windowStart]),
          result |-> [allowed |-> TRUE,
                      remaining |-> maxRequests - (tbl[clientIP].count + 1)]]

(***************************************************************************)
(* checkRateLimit(clientIP) at time t on the table tbl: the table it       *)
(* leaves and the result it returns.                                       *)
(***************************************************************************)
checkRateLimit(tbl, clientIP, t) ==
    IF clientIP \notin DOMAIN tbl \/ (t - tbl[clientIP].windowStart) > windowMs
    THEN [table  |-> MapSet(tbl, clientIP, [count |-> 1, windowStart |-> t]),
          result |-> [allowed |-> TRUE, remaining |-> maxRequests - 1]]
    ELSE IF tbl[clientIP].count >= maxRequests
    THEN [table  |-> tbl,
          result |-> [allowed |-> FALSE, remaining |-> 0,
                      retryAfter |-> Ceil(windowMs - (t - tbl[clientIP].windowStart), 1000)]]
    ELSE [table  |-> MapSet(tbl, clientIP,
                            [count |-> tbl[clientIP].count + 1,
                             windowStart |-> tbl[clientIP].windowStart]),
          result |-> [allowed |-> TRUE,
                      remaining |-> maxRequests - (tbl[clientIP].count + 1)]]

\* the admission log keeps the latest maxRequests + 1 admissions of a key
LogLen == maxRequests + 1

LogAppend(log, t) ==
    IF Len(log) < LogLen THEN Append(log, t) ELSE Append(Tail(log), t)

\* the table as the calls so far would have left it had the sweep never run
Unswept == IF lastCheck = NoCall THEN << >> ELSE lastCheck.unswept

\* the keys that were denied since they were last admitted
Denied == IF lastCheck = NoCall THEN {} ELSE lastCheck.denied

\* the effect of one checkRateLimit call on the limiter state and the history
\* (plain is what the call would have returned had the sweep never run,
\* before and after are the Map when the call started and when it returned)
GateCall(clientIP) ==
    LET r == checkRateLimit(requestCounts, clientIP, now)
        u == checkRateLimit(Unswept, clientIP, now) IN
    /\ requestCounts' = r.table
    /\ admitted' = IF r.result.allowed
                   THEN [admitted EXCEPT ![clientIP] = LogAppend(@, now)]
                   ELSE admitted
    /\ lastCheck' = [key |-> clientIP, at |-> now,
                     had |-> clientIP \in DOMAIN requestCounts,
                     pre |-> IF clientIP \in DOMAIN requestCounts
                             THEN requestCounts[clientIP]
                             ELSE [count |-> 0, windowStart |-> 0],
                     post |-> r.table[clientIP],
                     result |-> r.result,
                     swept |-> clientIP \in DOMAIN Unswept
                               /\ clientIP \notin DOMAIN requestCounts,
                     plain |-> u.result,
                     unswept |-> u.table,
                     before |-> requestCounts,
                     after |-> r.table,
                     deniedBefore |-> clientIP \in Denied,
                     denied |-> IF r.result.allowed THEN Denied \ {clientIP}
                                ELSE Denied \cup {clientIP}]

\* a direct call of checkRateLimit
CheckRateLimit(clientIP) ==
    /\ clientIP = "ipA" \/ otherCalls < MaxOtherCalls
    /\ otherCalls' = IF clientIP = "ipA" THEN otherCalls ELSE otherCalls + 1
    /\ GateCall(clientIP)
    /\ UNCHANGED <<now, ticks, nextCleanup, judgeVars, updateIn, mistralCall, lookups, chatVars>>

\* a sweep that deletes every entry, whatever its age
Cleanup_everyEntry ==
    /\ now >= nextCleanup
    /\ requestCounts' = << >>
    /\ nextCleanup' = now + cleanupIntervalMs
    /\ UNCHANGED <<now, ticks, admitted, lastCheck, otherCalls, judgeVars, updateIn, mistralCall, lookups, chatVars>>

\* the setInterval callback: delete the entries idle for more than two windows
Cleanup ==
    /\ now >= nextCleanup
    /\ requestCounts' = MapDelete(requestCounts,
          {ip \in DOMAIN requestCounts :
              now - requestCounts[ip].windowStart > windowMs * 2})
    /\ nextCleanup' = now + cleanupIntervalMs
    /\ UNCHANGED <<now, ticks, admitted, lastCheck, otherCalls, judgeVars, updateIn, mistralCall, lookups, chatVars>>

\* the wall clock advances
Tick(d) ==
    /\ ticks < MaxTicks
    /\ now' = now + d
    /\ ticks' = ticks + 1
    /\ UNCHANGED <<nextCleanup, requestCounts, admitted, lastCheck, otherCalls, judgeVars, updateIn, mistralCall, lookups, chatVars>>

InitGate ==
    /\ now = 0
    /\ ticks = 0
    /\ nextCleanup = cleanupIntervalMs
    /\ requestCounts = << >>
    /\ admitted = [k \in Keys |-> << >>]
    /\ lastCheck = NoCall
    /\ otherCalls = 0

InitJudgeIdle ==
    /\ judgeIn = [prompt |-> << >>, backend |-> [kind |-> "none"]]
    /\ judgeOut = [kind |-> "none"]
    /\ updateIn = [kind |-> "none"]
    /\ mistralCall = [kind |-> "none"]
    /\ lookups = << >>

\* the locals of a request before it has arrived
NoTurn == [key |-> "none"]
NoResp == [status |-> 0]

\* no request in flight
InitSlots ==
    /\ pc = [r \in Slots |-> "idle"]
    /\ turn = [r \in Slots |-> NoTurn]
    /\ resp = [r \in Slots |-> NoResp]
    /\ fx = [r \in Slots |-> {}]
    /\ turns = 0

InitChat ==
    /\ InitSlots
    /\ chat_sessions = << >>
    /\ chat_messages = << >>

\* the state when the server has started
InitServer == InitGate /\ InitJudgeIdle /\ InitChat

NextGate ==
    \/ \E k \in GateKeys : CheckRateLimit(k)
    \/ Cleanup
    \/ \E d \in Deltas : Tick(d)

SpecGate == InitServer /\ [][NextGate]_vars

(***************************************************************************)
(* Text.  A prompt is a sequence of pieces; each piece stands for the       *)
(* characters written in its name ("NL" is a line feed, "hello" a word).   *)
(***************************************************************************)
Pieces == {"{{", "}}", "<script", "<SCRIPT", "sudo", "SUDO", "exec(", "eval(",
           "DROP", "drop", "TABLE", ";", "DELETE", "FROM", " ", "NL", "Hi",
           "hello", "!"}

\* String.length of a piece
PieceLen(p) ==
    CASE p \in {" ", "NL", ";", "!"} -> 1
      [] p \in {"{{", "}}", "Hi"} -> 2
      [] p \in {"sudo", "SUDO", "DROP", "drop", "FROM"} -> 4
      [] p \in {"exec(", "eval(", "TABLE", "hello"} -> 5
      [] p = "DELETE" -> 6
      [] p \in {"<script", "<SCRIPT"} -> 7

\* \s
IsSpace(p) == p \in {" ", "NL"}
\* the characters . does not match
IsLineBreak(p) == p = "NL"
\* the first, the last character of the piece is a word character (\w)
StartsWord(p) == p \in {"sudo", "SUDO", "exec(", "eval(", "DROP", "drop", "TABLE",
                        "DELETE", "FROM", "Hi", "hello"}
EndsWord(p) == p \in {"<script", "<SCRIPT", "sudo", "SUDO", "DROP", "drop", "TABLE",
                      "DELETE", "FROM", "Hi", "hello"}
\* String.toUpperCase, as the /i flag compares
Upper(p) ==
    CASE p = "drop" -> "DROP"
      [] p = "sudo" -> "SUDO"
      [] p = "<script" -> "<SCRIPT"
      [] OTHER -> p

RECURSIVE StrLen(_)
\* String.length
StrLen(str) == IF str = << >> THEN 0 ELSE PieceLen(Head(str)) + StrLen(Tail(str))

RECURSIVE TrimLeft(_)
TrimLeft(str) ==
    IF str # << >> /\ IsSpace(Head(str)) THEN TrimLeft(Tail(str)) ELSE str

RECURSIVE TrimRight(_)
TrimRight(str) ==
    IF str # << >> /\ IsSpace(str[Len(str)])
    THEN TrimRight(SubSeq(str, 1, Len(str) - 1))
    ELSE str

\* String.trim
Trim(str) == TrimRight(TrimLeft(str))

\* \b before, after position i
BoundaryBefore(str, i) == i = 1 \/ ~EndsWord(str[i - 1])
BoundaryAfter(str, i) == i = Len(str) \/ ~StartsWord(str[i + 1])

\* the pieces strictly between positions i and j are all white space
SpacesBetween(str, i, j) == \A m \in (i + 1)..(j - 1) : IsSpace(str[m])

\* the seven dangerousPatterns
MatchTemplate(str) ==        \* /\{\{.*\}\}/
    \E i, j \in 1..Len(str) :
        /\ i < j /\ str[i] = "{{" /\ str[j] = "}}"
        /\ \A m \in (i + 1)..(j - 1) : ~IsLineBreak(str[m])
MatchScript(str) ==          \* /<script/i
    \E i \in 1..Len(str) : Upper(str[i]) = "<SCRIPT"
MatchSudo(str) ==            \* /\bsudo\b/
    \E i \in 1..Len(str) :
        str[i] = "sudo" /\ BoundaryBefore(str, i) /\ BoundaryAfter(str, i)
MatchExec(str) ==            \* /\bexec\(/
    \E i \in 1..Len(str) : str[i] = "exec(" /\ BoundaryBefore(str, i)
MatchEval(str) ==            \* /\beval\(/
    \E i \in 1..Len(str) : str[i] = "eval(" /\ BoundaryBefore(str, i)
MatchDropTable(str) ==       \* /DROP\s+TABLE/i
    \E i, j \in 1..Len(str) :
        /\ i + 1 < j /\ Upper(str[i]) = "DROP" /\ Upper(str[j]) = "TABLE"
        /\ SpacesBetween(str, i, j)
MatchDeleteFrom(str) ==      \* /;\s*DELETE\s+FROM/i
    \E i, j, l \in 1..Len(str) :
        /\ i < j /\ j + 1 < l
        /\ str[i] = ";" /\ Upper(str[j]) = "DELETE" /\ Upper(str[l]) = "FROM"
        /\ SpacesBetween(str, i, j) /\ SpacesBetween(str, j, l)

\* quickSafetyCheck(prompt)
quickSafetyCheck(prompt) ==
    IF \/ MatchTemplate(prompt) \/ MatchScript(prompt) \/ MatchSudo(prompt)
       \/ MatchExec(prompt) \/ MatchEval(prompt) \/ MatchDropTable(prompt)
       \/ MatchDeleteFrom(prompt)
    THEN [blocked |-> TRUE, reason |-> "Dangerous pattern detected"]
    ELSE [blocked |-> FALSE]

(***************************************************************************)
(* Values of a parsed JSON field and parseInt.                             *)
(***************************************************************************)
JSUndefined == [t |-> "undefined"]
JSNull == [t |-> "null"]
JSBool(b) == [t |-> "boolean", b |-> b]
\* the number tenths / 10
JSNum(tenths) == [t |-> "number", tenths |-> tenths]
\* a string, as the sequence of its characters
JSStr(chars) == [t |-> "string", chars |-> chars]

NaN == [nan |-> TRUE, n |-> 0]
Num(n) == [nan |-> FALSE, n |-> n]

IsDigit(c) == c \in {"0", "1", "2", "3", "4", "5", "6", "7", "8", "9"}
DigitVal(c) ==
    CASE c = "0" -> 0 [] c = "1" -> 1 [] c = "2" -> 2 [] c = "3" -> 3
      [] c = "4" -> 4 [] c = "5" -> 5 [] c = "6" -> 6 [] c = "7" -> 7
      [] c = "8" -> 8 [] c = "9" -> 9

RECURSIVE SkipSpace(_, _)
SkipSpace(cs, i) ==
    IF i <= Len(cs) /\ cs[i] = " " THEN SkipSpace(cs, i + 1) ELSE i

RECURSIVE DigitsValue(_, _, _)
DigitsValue(cs, i, acc) ==
    IF i <= Len(cs) /\ IsDigit(cs[i])
    THEN DigitsValue(cs, i + 1, acc * 10 + DigitVal(cs[i]))
    ELSE acc

\* parseInt of a string: leading white space, a sign, then the digits up to
\* the first other character
ParseIntChars(cs) ==
    LET i == SkipSpace(cs, 1)
        signed == i <= Len(cs) /\ cs[i] \in {"-", "+"}
        j == IF signed THEN i + 1 ELSE i
    IN IF j <= Len(cs) /\ IsDigit(cs[j])
       THEN Num((IF signed /\ cs[i] = "-" THEN -1 ELSE 1) * DigitsValue(cs, j, 0))
       ELSE NaN

\* parseInt(v): v is converted to a string first
parseInt(v) ==
    CASE v.t = "number" ->
            IF v.tenths >= 0 THEN Num(v.tenths \div 10) ELSE Num(-((-v.tenths) \div 10))
      [] v.t = "string" -> ParseIntChars(v.chars)
      [] OTHER -> NaN

Min(a, b) == IF a < b THEN a ELSE b
Max(a, b) == IF a > b THEN a ELSE b

\* x || 1 for the result of parseInt
OrOne(x) == IF x.nan \/ x.n = 0 THEN 1 ELSE x.n

(***************************************************************************)
(* The classifier backend's reply.  Its text is a sequence of pieces:      *)
(* "txt" is text without braces, "{" and "}" are lone braces, "objA" and   *)
(* "objB" are well-formed JSON objects whose fields the reply carries.     *)
(***************************************************************************)
ReplyToks == {"txt", "{", "}", "objA", "objB"}
HasOpen(p) == p \in {"{", "objA", "objB"}
HasClose(p) == p \in {"}", "objA", "objB"}

SetMin(S) == CHOOSE x \in S : \A y \in S : x <= y
SetMax(S) == CHOOSE x \in S : \A y \in S : x >= y

\* responseText.match(/\{[\s\S]*\}/): from the first "{" to the last "}"
\* (<< >> stands for null)
jsonMatch(text) ==
    LET opens  == {i \in 1..Len(text) : HasOpen(text[i])}
        closes == {i \in 1..Len(text) : HasClose(text[i])}
    IN IF opens = {} \/ closes = {} THEN << >>
       ELSE IF SetMax(closes) < SetMin(opens) THEN << >>
       ELSE SubSeq(text, SetMin(opens), SetMax(closes))

\* JSON.parse of the matched text: [ok, value]
jsonParse(m, reply) ==
    IF m = <<"objA">> THEN [ok |-> TRUE, value |-> reply.objA]
    ELSE IF m = <<"objB">> THEN [ok |-> TRUE, value |-> reply.objB]
    ELSE IF m = <<"{", "}">>
    THEN [ok |-> TRUE, value |-> [riskLevel |-> JSUndefined,
                                  isSuspicious |-> JSUndefined, reason |-> ""]]
    ELSE [ok |-> FALSE]

\* analyzePromptSafety that treats a failed backend call as the highest risk
analyzePromptSafety_failClosed(prompt, backend) ==
    IF StrLen(prompt) < 10
    THEN [riskLevel |-> 1, isSuspicious |-> FALSE,
          reason |-> "Message too short to analyze", analysisTime |-> 0,
          error |-> FALSE]
    ELSE IF backend.kind = "throw"
    THEN [riskLevel |-> 10, isSuspicious |-> TRUE,
          reason |-> "Security check failed", analysisTime |-> backend.elapsed,
          error |-> TRUE]
    ELSE LET m == jsonMatch(backend.content)
             parsed == jsonParse(m, backend)
         IN IF m = << >> \/ ~parsed.ok
            THEN [riskLevel |-> 1, isSuspicious |-> FALSE,
                  reason |-> "Parse error - assuming safe",
                  analysisTime |-> backend.elapsed, error |-> FALSE]
            ELSE LET riskLevel == Min(10, Max(1, OrOne(parseInt(parsed.value.riskLevel))))
                 IN [riskLevel |-> riskLevel,
                     isSuspicious |-> riskLevel >= 7,
                     reason |-> IF parsed.value.reason = ""
                                THEN "No reason provided"
                                ELSE parsed.value.reason,
                     analysisTime |-> backend.elapsed,
                     error |-> FALSE]

\* analyzePromptSafety without the clamp to 1..10
analyzePromptSafety_noClamp(prompt, backend) ==
    IF StrLen(prompt) < 10
    THEN [riskLevel |-> 1, isSuspicious |-> FALSE,
          reason |-> "Message too short to analyze", analysisTime |-> 0,
          error |-> FALSE]
    ELSE IF backend.kind = "throw"
    THEN [riskLevel |-> 1, isSuspicious |-> FALSE,
          reason |-> "Security check failed", analysisTime |-> backend.elapsed,
          error |-> TRUE]
    ELSE LET m == jsonMatch(backend.content)
             parsed == jsonParse(m, backend)
         IN IF m = << >> \/ ~parsed.ok
            THEN [riskLevel |-> 1, isSuspicious |-> FALSE,
                  reason |-> "Parse error - assuming safe",
                  analysisTime |-> backend.elapsed, error |-> FALSE]
            ELSE LET riskLevel == OrOne(parseInt(parsed.value.riskLevel))
                 IN [riskLevel |-> riskLevel,
                     isSuspicious |-> riskLevel >= 7,
                     reason |-> IF parsed.value.reason = ""
                                THEN "No reason provided"
                                ELSE parsed.value.reason,
                     analysisTime |-> backend.elapsed,
                     error |-> FALSE]

\* analyzePromptSafety without the skip of short messages
analyzePromptSafety_noShortSkip(prompt, backend) ==
    IF backend.kind = "throw"
    THEN [riskLevel |-> 1, isSuspicious |-> FALSE,
          reason |-> "Security check failed", analysisTime |-> backend.elapsed,
          error |-> TRUE]
    ELSE LET m == jsonMatch(backend.content)
             parsed == jsonParse(m, backend)
         IN IF m = << >> \/ ~parsed.ok
            THEN [riskLevel |-> 1, isSuspicious |-> FALSE,
                  reason |-> "Parse error - assuming safe",
                  analysisTime |-> backend.elapsed, error |-> FALSE]
            ELSE LET riskLevel == Min(10, Max(1, OrOne(parseInt(parsed.value.riskLevel))))
                 IN [riskLevel |-> riskLevel,
                     isSuspicious |-> riskLevel >= 7,
                     reason |-> IF parsed.value.reason = ""
                                THEN "No reason provided"
                                ELSE parsed.value.reason,
                     analysisTime |-> backend.elapsed,
                     error |-> FALSE]

\* analyzePromptSafety(prompt, context) given what the backend does when called
analyzePromptSafety(prompt, backend) ==
    IF StrLen(prompt) < 10
    THEN [riskLevel |-> 1, isSuspicious |-> FALSE,
          reason |-> "Message too short to analyze", analysisTime |-> 0,
          error |-> FALSE]
    ELSE IF backend.kind = "throw"
    THEN [riskLevel |-> 1, isSuspicious |-> FALSE,
          reason |-> "Security check failed", analysisTime |-> backend.elapsed,
          error |-> TRUE]
    ELSE LET m == jsonMatch(backend.content)
             parsed == jsonParse(m, backend)
         IN IF m = << >> \/ ~parsed.ok
            THEN [riskLevel |-> 1, isSuspicious |-> FALSE,
                  reason |-> "Parse error - assuming safe",
                  analysisTime |-> backend.elapsed, error |-> FALSE]
            ELSE LET riskLevel == Min(10, Max(1, OrOne(parseInt(parsed.value.riskLevel))))
                 IN [riskLevel |-> riskLevel,
                     isSuspicious |-> riskLevel >= 7,
                     reason |-> IF parsed.value.reason = ""
                                THEN "No reason provided"
                                ELSE parsed.value.reason,
                     analysisTime |-> backend.elapsed,
                     error |-> FALSE]

\* whether analyzePromptSafety reaches mistral.chat.complete
judgeCallsBackend(prompt, backend) ==
    StrLen(prompt) >= 10 /\ ~(backend.kind = "throw" /\ backend.cause = "no_api_key")

(***************************************************************************)
(* analyzePromptSafety on its own: every prompt of JudgePrompts against    *)
(* every backend behaviour of JudgeBackends.                               *)
(***************************************************************************)
\* what the backend may put in the riskLevel field
RiskValues ==
    {JSUndefined, JSNull, JSBool(TRUE)}
    \cup {JSNum(n) : n \in {-30, -5, 0, 5, 10, 30, 40, 69, 70, 79, 100, 101, 2500}}
    \cup {JSStr(cs) : cs \in {<< >>, <<"h", "i">>, <<"8">>, <<" ", "9">>,
                              <<"-", "4">>, <<"1", "2">>, <<"7", "x">>}}

\* the fields of the object "objA" and of the object "objB"
ObjectsA ==
    {[riskLevel |-> v, isSuspicious |-> JSBool(b), reason |-> "injection attempt"] :
        v \in RiskValues, b \in BOOLEAN}
    \cup {[riskLevel |-> JSNum(90), isSuspicious |-> JSUndefined, reason |-> ""]}
ObjectsB ==
    {[riskLevel |-> JSNum(20), isSuspicious |-> JSBool(FALSE), reason |-> "normal question"],
     [riskLevel |-> JSNum(90), isSuspicious |-> JSBool(TRUE), reason |-> "jailbreak"]}

\* the texts of at most n pieces
ReplyTexts(n) == UNION {[1..k -> ReplyToks] : k \in 0..n}

\* the ways a call of the backend can fail
Causes == {"no_api_key", "network", "http_429", "http_500", "timeout"}

\* timer.elapsed() when the backend has answered
Elapsed == {0, 350}

Throws == {[kind |-> "throw", cause |-> c, elapsed |-> e] : c \in Causes, e \in Elapsed}

Replies(texts, as, bs) ==
    {[kind |-> "reply", content |-> c, objA |-> a, objB |-> b, elapsed |-> e] :
        c \in texts, a \in as, b \in bs, e \in Elapsed}

JudgeBackends == Throws \cup Replies(ReplyTexts(MaxReplyToks), ObjectsA, ObjectsB)

JudgePrompts == {<<"Hi">>, <<"hello", " ", "Hi">>, <<"hello", " ", "hello">>,
                 <<"hello", " ", "hello", "!">>}

InitJudge ==
    /\ InitGate
    /\ InitChat
    /\ judgeIn \in {[prompt |-> p, backend |-> b] : p \in JudgePrompts, b \in JudgeBackends}
    /\ judgeOut = [kind |-> "none"]
    /\ updateIn = [kind |-> "none"]
    /\ mistralCall = [kind |-> "none"]
    /\ lookups = << >>

\* one call of analyzePromptSafety
Analyze ==
    /\ judgeOut.kind = "none"
    /\ judgeOut' = [kind |-> "verdict",
                    verdict |-> analyzePromptSafety(judgeIn.prompt, judgeIn.backend),
                    called |-> judgeCallsBackend(judgeIn.prompt, judgeIn.backend)]
    /\ UNCHANGED <<gateVars, judgeIn, updateIn, mistralCall, lookups, chatVars>>

NextJudge == Analyze

SpecJudge == InitJudge /\ [][NextJudge]_vars

(***************************************************************************)
(* The tenants and their companions (tables customers, customer_ai_config  *)
(* and customer_companions; the pipeline only reads them).  A slug is the  *)
(* sequence of its parts.                                                  *)
(***************************************************************************)
KnownSlugs == {<<"bella", "italia">>, <<"eldercare", "pilot">>,
               <<"anderssons", "verkstad">>, <<"acme">>}

\* the row of customers LEFT JOIN customer_ai_config for a known slug
CustomerRow(slug) ==
    CASE slug = <<"bella", "italia">> ->
            [id |-> "c-bella", ai_name |-> "Sofia", greeting |-> "Ciao",
             system_prompt |-> "Du ar Sofia", knowledge_base |-> "MENY"]
      [] slug = <<"eldercare", "pilot">> ->
            [id |-> "c-elder", ai_name |-> "Astrid", greeting |-> "Hei kjaere",
             system_prompt |-> "Du er en empatisk assistent", knowledge_base |-> ""]
      [] slug = <<"anderssons", "verkstad">> ->
            [id |-> "c-verkstad", ai_name |-> "Marcus", greeting |-> "Hej",
             system_prompt |-> "Du ar Marcus", knowledge_base |-> "PRISER"]
      [] slug = <<"acme">> ->
            [id |-> "c-acme", ai_name |-> "", greeting |-> "",
             system_prompt |-> "", knowledge_base |-> ""]

\* the keys of table customer_companions
CompanionKeys == {<<"c-elder", "astrid">>, <<"c-bella", "luigi">>}

CompanionRow(customerId, companionKey) ==
    CASE <<customerId, companionKey>> = <<"c-elder", "astrid">> ->
            [name |-> "Astrid", greeting |-> "Hei, jeg er Astrid",
             system_prompt |-> "Du er Astrid"]
      [] <<customerId, companionKey>> = <<"c-bella", "luigi">> ->
            [name |-> "Luigi", greeting |-> "", system_prompt |-> ""]

\* the marker words a slug part contains once it is lower-cased
SlugMarks(part) ==
    CASE part = "eldercare" -> {"eldercare"}
      [] part \in {"mimre", "Mimre"} -> {"mimre"}
      [] part = "restaurant" -> {"restaurant"}
      [] part = "bella" -> {"bella"}
      [] part = "italia" -> {"italia"}
      [] part = "verkstad" -> {"verkstad"}
      [] part = "auto" -> {"auto"}
      [] part = "bil" -> {"bil"}
      [] OTHER -> {}

\* lowerSlug.includes(marker)
SlugIncludes(slug, marker) == \E i \in 1..Len(slug) : marker \in SlugMarks(slug[i])

\* getCustomerType(slug)
getCustomerType(slug) ==
    IF slug = << >> THEN "general"
    ELSE IF SlugIncludes(slug, "eldercare") \/ SlugIncludes(slug, "mimre")
    THEN "eldercare"
    ELSE IF \/ SlugIncludes(slug, "restaurant") \/ SlugIncludes(slug, "bella")
            \/ SlugIncludes(slug, "italia")
    THEN "restaurant"
    ELSE IF \/ SlugIncludes(slug, "verkstad") \/ SlugIncludes(slug, "auto")
            \/ SlugIncludes(slug, "bil")
    THEN "auto-shop"
    ELSE "general"

\* getBlockedResponse(customerType)
getBlockedResponse(customerType) ==
    CASE customerType = "eldercare" -> <<"Kjaere deg, jeg forstar ikke helt hva du mener">>
      [] customerType = "restaurant" -> <<"Tyvarr kan jag inte hjalpa till med det">>
      [] customerType = "auto-shop" -> <<"Det kan jag tyvarr inte hjalpa till med">>
      [] OTHER -> <<"Jag kan tyvarr inte hjalpa till med det">>

\* the response of the quick block
QuickBlockedText == <<"Jag kan tyvarr inte hjalpa till med det. Kan jag hjalpa dig med nagot annat?">>

\* buildSystemPrompt(basePrompt, knowledgeBase, greeting), as the list of its parts
buildSystemPrompt(basePrompt, knowledgeBase, greeting) ==
    <<IF basePrompt # "" THEN basePrompt ELSE "Du ar en hjalpsam AI-assistent.">>
    \o (IF knowledgeBase # "" THEN <<"KUNSKAPSBAS", knowledgeBase>> ELSE << >>)
    \o (IF greeting # "" THEN <<"Din halsning ar", greeting>> ELSE << >>)

\* a || b for strings
OrElse(a, b) == IF a # "" THEN a ELSE b

(***************************************************************************)
(* The HTTP front (server.js) and the rate limit middleware.               *)
(***************************************************************************)
\* getClientIP(req): req carries the x-forwarded-for list, x-real-ip and the
\* socket's remote address ("" and << >> stand for an absent header)
getClientIP(req) ==
    IF req.forwarded # << >> THEN req.forwarded[1]
    ELSE IF req.realIp # "" THEN req.realIp
    ELSE IF req.remoteAddress # "" THEN req.remoteAddress
    ELSE "unknown"

\* the locals of handleRequest and handleChat when a request has passed the gate
\* (backend and generation record what the two backends did in this turn,
\* thrown the error that handleChat caught, before the table chat_sessions
\* as getOrCreateSession found it, clientHistory the history of the request
\* when it is an array that is not empty)
NewTurn(clientIP, gate) ==
    [key |-> clientIP, remaining |-> gate.remaining,
     prompt |-> << >>, slug |-> << >>, sessionId |-> "", companion |-> "",
     customer |-> [id |-> ""],
     systemPrompt |-> "", greeting |-> "", aiName |-> "", fullSystemPrompt |-> << >>,
     session |-> [id |-> ""], isNew |-> FALSE, before |-> << >>,
     verdict |-> [riskLevel |-> 0], updateError |-> FALSE,
     backend |-> [kind |-> "none"], generation |-> [kind |-> "none"],
     thrown |-> [at |-> "none"],
     clientHistory |-> << >>,
     chatHistory |-> << >>, messages |-> << >>, aiResult |-> [response |-> << >>],
     result |-> [none |-> TRUE]]

\* rateLimit(req, res): the gate's call, the headers, and on denial the 429
rateLimit(r, req) ==
    LET clientIP == getClientIP(req)
        result == checkRateLimit(requestCounts, clientIP, now).result
    IN /\ GateCall(clientIP)
       /\ resp' = [resp EXCEPT ![r] =
                      IF result.allowed THEN NoResp
                      ELSE [status |-> 429,
                            headers |-> [limit |-> maxRequests,
                                         remaining |-> result.remaining,
                                         window |-> windowMs \div 1000,
                                         retryAfter |-> result.retryAfter],
                            body |-> [error |-> <<"Too many requests">>,
                                      retryAfter |-> result.retryAfter]]]

\* handleRequest without the return after a denial
Arrive_noReturn(r, req) ==
    LET clientIP == getClientIP(req)
        result == checkRateLimit(requestCounts, clientIP, now).result
    IN /\ pc[r] \in {"idle", "done"}
       /\ rateLimit(r, req)
       /\ fx' = [fx EXCEPT ![r] = {"rateLimit"}]
       /\ pc' = [pc EXCEPT ![r] = "parseBody"]
       /\ turn' = [turn EXCEPT ![r] = NewTurn(clientIP, result)]
       /\ UNCHANGED <<now, ticks, nextCleanup, otherCalls, judgeVars, updateIn, mistralCall, lookups,
                      chat_sessions, chat_messages, turns>>

\* a POST /api/chat arrives: handleRequest runs up to "await parseBody(req)",
\* or returns when rateLimit has answered
Arrive(r, req) ==
    LET clientIP == getClientIP(req)
        result == checkRateLimit(requestCounts, clientIP, now).result
    IN /\ pc[r] \in {"idle", "done"}
       /\ rateLimit(r, req)
       /\ fx' = [fx EXCEPT ![r] = {"rateLimit"}]
       /\ IF result.allowed
          THEN /\ pc' = [pc EXCEPT ![r] = "parseBody"]
               /\ turn' = [turn EXCEPT ![r] = NewTurn(clientIP, result)]
          ELSE /\ pc' = [pc EXCEPT ![r] = "done"]
               /\ turn' = [turn EXCEPT ![r] = NoTurn]
       /\ UNCHANGED <<now, ticks, nextCleanup, otherCalls, judgeVars, updateIn, mistralCall, lookups,
                      chat_sessions, chat_messages, turns>>

\* the response server.js writes for what handleChat returned (JSON.stringify
\* leaves out a field that is undefined; of _metrics the model keeps ttft)
HttpResponse(t, result) ==
    IF "error" \in DOMAIN result /\ result.error # << >>
    THEN [status |-> result.status,
          headers |-> [limit |-> maxRequests, remaining |-> t.remaining,
                       window |-> windowMs \div 1000],
          body |-> [error |-> result.error]]
    ELSE [status |-> 200,
          headers |-> [limit |-> maxRequests, remaining |-> t.remaining,
                       window |-> windowMs \div 1000],
          body |-> [f \in ({"response", "sessionId"} \cap DOMAIN result) \cup {"_metrics"} |->
                      IF f # "_metrics" THEN result[f]
                      ELSE IF "metrics" \in DOMAIN result /\ "ttft" \in DOMAIN result.metrics
                      THEN [ttft |-> result.metrics.ttft]
                      ELSE << >>]]

\* handleChat returns result (from locals t) and handleRequest answers
Return(r, t, result) ==
    /\ turn' = [turn EXCEPT ![r] = [t EXCEPT !.result = result]]
    /\ resp' = [resp EXCEPT ![r] = HttpResponse(t, result)]
    /\ pc' = [pc EXCEPT ![r] = "done"]

\* handleChat's catch block: what a thrown error is turned into
Caught(message) ==
    IF message = <<"RATE_LIMITED">>
    THEN [error |-> <<"AI service temporarily unavailable. Please wait a moment and try again.">>,
          status |-> 429]
    ELSE [error |-> message, status |-> 500]

\* an error with this message is thrown at step `at` of handleChat and caught
Throw(r, t, at, message) ==
    Return(r, [t EXCEPT !.thrown = [at |-> at, message |-> message]], Caught(message))

\* a response handleRequest writes itself (validation, its own catch block)
Answer(r, status, error) ==
    /\ resp' = [resp EXCEPT ![r] =
                   [status |-> status,
                    headers |-> [limit |-> maxRequests, remaining |-> turn[r].remaining,
                                 window |-> windowMs \div 1000],
                    body |-> [error |-> error]]]
    /\ pc' = [pc EXCEPT ![r] = "done"]
    /\ UNCHANGED turn

Invoke(r, what) == fx' = [fx EXCEPT ![r] = @ \cup what]

\* the body has been read: parseBody, validation, and handleChat up to its
\* first await (STEP 0 and the start of STEP 1)
ParseBody(r, body) ==
    /\ pc[r] = "parseBody"
    /\ UNCHANGED <<gateVars, judgeVars, updateIn, mistralCall, lookups, chat_sessions, chat_messages>>
    /\ IF body.kind = "malformed"
       THEN \* JSON.parse throws: handleRequest's catch block
            /\ Answer(r, 500, <<"Internal server error">>)
            /\ Invoke(r, {"parseBody"})
            /\ UNCHANGED turns
       ELSE IF body.prompt.t # "string" \/ Trim(body.prompt.chars) = << >>
       THEN /\ Answer(r, 400, <<"Invalid prompt">>)
            /\ Invoke(r, {"parseBody", "validate"})
            /\ UNCHANGED turns
       ELSE IF body.slug = << >> /\ body.customerId = ""
       THEN /\ Answer(r, 400, <<"slug or customerId required">>)
            /\ Invoke(r, {"parseBody", "validate"})
            /\ UNCHANGED turns
       ELSE LET prompt == Trim(body.prompt.chars)
                t == [turn[r] EXCEPT !.prompt = prompt, !.slug = body.slug,
                                     !.sessionId = body.sessionId]
            IN /\ turns < MaxTurns
               /\ turns' = turns + 1
               /\ IF quickSafetyCheck(prompt).blocked
                  THEN /\ Return(r, t, [response |-> QuickBlockedText,
                                        sessionId |-> OrElse(body.sessionId, "blocked"),
                                        blocked |-> TRUE,
                                        riskLevel |-> 10])
                       /\ Invoke(r, {"parseBody", "validate", "handleChat",
                                     "quickSafetyCheck"})
                  ELSE IF body.slug # << >>
                  THEN /\ turn' = [turn EXCEPT ![r] = t]
                       /\ pc' = [pc EXCEPT ![r] = "getCustomerBySlug"]
                       /\ Invoke(r, {"parseBody", "validate", "handleChat",
                                     "quickSafetyCheck", "getCustomerBySlug"})
                       /\ UNCHANGED resp
                  ELSE /\ Return(r, t, [error |-> <<"customerId lookup not implemented, use slug">>,
                                        status |-> 400])
                       /\ Invoke(r, {"parseBody", "validate", "handleChat",
                                     "quickSafetyCheck"})

(***************************************************************************)
(* The database steps of handleChat (db.js).  Every query either succeeds  *)
(* or throws (db = "fail"); chat_sessions.id is of type UUID, so a lookup  *)
(* by a text that is no UUID throws as well.                               *)
(***************************************************************************)
DbOutcomes == {"ok", "fail"}
DbError == <<"database error">>
InvalidUuid == <<"invalid input syntax for type uuid">>
DuplicateKey == <<"duplicate key value violates unique constraint">>

\* session ids that are UUIDs: one a client may invent, and those of randomUUID()
GenIds == <<"g1", "g2", "g3", "g4">>
GenIdSet == {GenIds[i] : i \in 1..Len(GenIds)}
Uuids == {"s1"} \cup GenIdSet

\* crypto.randomUUID(): an id that is not in use
randomUUID(table) ==
    GenIds[SetMin({i \in 1..Len(GenIds) : GenIds[i] \notin DOMAIN table})]

\* STEP 2 taking every field of a companion that was found, empty or not
ConfigOf_wholesale(t, customer, companionConfig) ==
    LET systemPrompt == IF companionConfig.found
                        THEN companionConfig.row.system_prompt
                        ELSE customer.system_prompt
        greeting == IF companionConfig.found
                    THEN companionConfig.row.greeting
                    ELSE customer.greeting
        aiName == IF companionConfig.found
                  THEN companionConfig.row.name
                  ELSE customer.ai_name
    IN [t EXCEPT !.customer = customer,
                 !.systemPrompt = systemPrompt, !.greeting = greeting,
                 !.aiName = aiName,
                 !.fullSystemPrompt =
                     buildSystemPrompt(systemPrompt, customer.knowledge_base, greeting)]

\* STEP 2 after the customer (and the companion, if asked for) is known
ConfigOf(t, customer, companionConfig) ==
    LET systemPrompt == IF companionConfig.found
                        THEN OrElse(companionConfig.row.system_prompt, customer.system_prompt)
                        ELSE customer.system_prompt
        greeting == IF companionConfig.found
                    THEN OrElse(companionConfig.row.greeting, customer.greeting)
                    ELSE customer.greeting
        aiName == IF companionConfig.found
                  THEN OrElse(companionConfig.row.name, customer.ai_name)
                  ELSE customer.ai_name
    IN [t EXCEPT !.customer = customer,
                 !.systemPrompt = systemPrompt, !.greeting = greeting,
                 !.aiName = aiName,
                 !.fullSystemPrompt =
                     buildSystemPrompt(systemPrompt, customer.knowledge_base, greeting)]

\* where getOrCreateSession starts: the SELECT if a sessionId was given
SessionEntry(t) == IF t.sessionId # "" THEN "selectSession" ELSE "insertSession"

\* getCustomerBySlug answers (STEP 1), up to the next await
GetCustomerBySlug(r, db, companion) ==
    /\ pc[r] = "getCustomerBySlug"
    /\ UNCHANGED <<gateVars, judgeVars, updateIn, mistralCall, lookups, chat_sessions, chat_messages, turns>>
    /\ IF db = "fail"
       THEN Throw(r, turn[r], "getCustomerBySlug", DbError) /\ UNCHANGED fx
       ELSE IF turn[r].slug \notin KnownSlugs
       THEN /\ Return(r, turn[r], [error |-> <<"Customer not found">>, status |-> 404])
            /\ UNCHANGED fx
       ELSE LET customer == CustomerRow(turn[r].slug)
                t == [turn[r] EXCEPT !.companion = companion]
            IN /\ UNCHANGED resp
               /\ IF companion # ""
                  THEN /\ turn' = [turn EXCEPT ![r] = [t EXCEPT !.customer = customer]]
                       /\ pc' = [pc EXCEPT ![r] = "getCompanion"]
                       /\ Invoke(r, {"getCompanion"})
                  ELSE /\ turn' = [turn EXCEPT ![r] = ConfigOf(t, customer, [found |-> FALSE])]
                       /\ pc' = [pc EXCEPT ![r] = SessionEntry(t)]
                       /\ Invoke(r, {"getOrCreateSession"})

\* handleChat answering 404 when the companion key has no row
GetCompanion_notFoundIsError(r, db) ==
    /\ pc[r] = "getCompanion"
    /\ UNCHANGED <<gateVars, judgeVars, updateIn, mistralCall, lookups, chat_sessions, chat_messages, turns>>
    /\ IF db = "fail"
       THEN Throw(r, turn[r], "getCompanion", DbError) /\ UNCHANGED fx
       ELSE LET t == turn[r]
                key == <<t.customer.id, t.companion>>
            IN IF key \in CompanionKeys
               THEN /\ turn' = [turn EXCEPT ![r] =
                                   ConfigOf(t, t.customer,
                                            [found |-> TRUE,
                                             row |-> CompanionRow(key[1], key[2])])]
                    /\ pc' = [pc EXCEPT ![r] = SessionEntry(t)]
                    /\ Invoke(r, {"getOrCreateSession"})
                    /\ UNCHANGED resp
               ELSE /\ Return(r, t, [error |-> <<"Companion not found">>, status |-> 404])
                    /\ UNCHANGED fx

\* getCompanion answers (STEP 2)
GetCompanion(r, db) ==
    /\ pc[r] = "getCompanion"
    /\ UNCHANGED <<gateVars, judgeVars, updateIn, mistralCall, lookups, chat_sessions, chat_messages, turns>>
    /\ IF db = "fail"
       THEN Throw(r, turn[r], "getCompanion", DbError) /\ UNCHANGED fx
       ELSE LET t == turn[r]
                key == <<t.customer.id, t.companion>>
                companionConfig ==
                    IF key \in CompanionKeys
                    THEN [found |-> TRUE, row |-> CompanionRow(key[1], key[2])]
                    ELSE [found |-> FALSE]
            IN /\ turn' = [turn EXCEPT ![r] = ConfigOf(t, t.customer, companionConfig)]
               /\ pc' = [pc EXCEPT ![r] = SessionEntry(t)]
               /\ Invoke(r, {"getOrCreateSession"})
               /\ UNCHANGED resp

\* handleChat goes on from getOrCreateSession into analyzePromptSafety
SessionReady(r, t, session, isNew) ==
    /\ turn' = [turn EXCEPT ![r] = [t EXCEPT !.session = session, !.isNew = isNew]]
    /\ pc' = [pc EXCEPT ![r] = "analyzePromptSafety"]
    /\ Invoke(r, {"analyzePromptSafety"})
    /\ UNCHANGED resp

\* getOrCreateSession: the SELECT by id answers (STEP 3)
SelectSession(r, db) ==
    /\ pc[r] = "selectSession"
    /\ UNCHANGED <<gateVars, judgeVars, updateIn, mistralCall, lookups, chat_sessions, chat_messages, turns>>
    /\ LET t == [turn[r] EXCEPT !.before = chat_sessions]
       IN IF db = "fail"
          THEN Throw(r, t, "selectSession", DbError) /\ UNCHANGED fx
          ELSE IF t.sessionId \notin Uuids
          THEN Throw(r, t, "selectSession", InvalidUuid) /\ UNCHANGED fx
          ELSE IF t.sessionId \in DOMAIN chat_sessions
          THEN SessionReady(r, t, [id |-> t.sessionId] @@ chat_sessions[t.sessionId],
                            FALSE)
          ELSE /\ turn' = [turn EXCEPT ![r] = t]
               /\ pc' = [pc EXCEPT ![r] = "insertSession"]
               /\ UNCHANGED <<resp, fx>>

\* getOrCreateSession: the INSERT answers (STEP 3)
InsertSession(r, db) ==
    /\ pc[r] = "insertSession"
    /\ UNCHANGED <<gateVars, judgeVars, updateIn, mistralCall, lookups, chat_messages, turns>>
    /\ LET t == IF turn[r].sessionId # "" THEN turn[r]
                ELSE [turn[r] EXCEPT !.before = chat_sessions]
           newId == IF t.sessionId # "" THEN t.sessionId ELSE randomUUID(chat_sessions)
           row == [customer_id |-> t.customer.id,
                   metadata |-> [companion |-> t.companion, ai_name |-> t.aiName],
                   suspicious |-> FALSE, risk_level |-> 0, needs_human |-> FALSE]
       IN IF db = "fail"
          THEN /\ Throw(r, t, "insertSession", DbError)
               /\ UNCHANGED <<fx, chat_sessions>>
          ELSE IF newId \in DOMAIN chat_sessions
          THEN /\ Throw(r, t, "insertSession", DuplicateKey)
               /\ UNCHANGED <<fx, chat_sessions>>
          ELSE /\ chat_sessions' = MapSet(chat_sessions, newId, row)
               /\ SessionReady(r, t, [id |-> newId] @@ row, TRUE)

\* updateSession that never lowers risk_level (GREATEST instead of COALESCE)
updateSession_greatest(table, sessionId, updates) ==
    IF sessionId \notin DOMAIN table THEN table
    ELSE [table EXCEPT ![sessionId] =
            [@ EXCEPT !.suspicious = IF "suspicious" \in DOMAIN updates
                                     THEN updates.suspicious ELSE @,
                      !.risk_level = IF "risk_level" \in DOMAIN updates
                                     THEN Max(updates.risk_level, @) ELSE @,
                      !.needs_human = IF "needs_human" \in DOMAIN updates
                                      THEN updates.needs_human ELSE @]]

\* updateSession whose UPDATE leaves risk_level out
updateSession_flagOnly(table, sessionId, updates) ==
    IF sessionId \notin DOMAIN table THEN table
    ELSE [table EXCEPT ![sessionId] =
            [@ EXCEPT !.suspicious = IF "suspicious" \in DOMAIN updates
                                     THEN updates.suspicious ELSE @,
                      !.needs_human = IF "needs_human" \in DOMAIN updates
                                      THEN updates.needs_human ELSE @]]

\* updateSession sending updates.x || null: false and 0 count as omitted
updateSession_falsyIsAbsent(table, sessionId, updates) ==
    IF sessionId \notin DOMAIN table THEN table
    ELSE [table EXCEPT ![sessionId] =
            [@ EXCEPT !.suspicious = IF "suspicious" \in DOMAIN updates
                                     THEN (updates.suspicious \/ @) ELSE @,
                      !.risk_level = IF "risk_level" \in DOMAIN updates
                                        /\ updates.risk_level # 0
                                     THEN updates.risk_level ELSE @,
                      !.needs_human = IF "needs_human" \in DOMAIN updates
                                      THEN (updates.needs_human \/ @) ELSE @]]

\* updateSession(sessionId, updates): the UPDATE with its COALESCEs; the
\* statement sets suspicious, risk_level and needs_human only
updateSession(table, sessionId, updates) ==
    IF sessionId \notin DOMAIN table THEN table
    ELSE [table EXCEPT ![sessionId] =
            [@ EXCEPT !.suspicious = IF "suspicious" \in DOMAIN updates
                                     THEN updates.suspicious ELSE @,
                      !.risk_level = IF "risk_level" \in DOMAIN updates
                                     THEN updates.risk_level ELSE @,
                      !.needs_human = IF "needs_human" \in DOMAIN updates
                                      THEN updates.needs_human ELSE @]]

(***************************************************************************)
(* updateSession on its own: calls with every combination of present and   *)
(* omitted flags on a table of two sessions that have messages.            *)
(***************************************************************************)
\* the row the INSERT of getOrCreateSession creates
FreshRow(customerId, aiName) ==
    [customer_id |-> customerId, metadata |-> [companion |-> "", ai_name |-> aiName],
     suspicious |-> FALSE, risk_level |-> 0, needs_human |-> FALSE]

UpdateTable ==
    MapSet(MapSet(<< >>, "s1", FreshRow("c-bella", "Sofia")),
           "s2", FreshRow("c-elder", "Astrid"))

UpdateMessages ==
    <<[session_id |-> "s1", role |-> "user", content |-> <<"hello">>,
       sender_type |-> "user"],
      [session_id |-> "s2", role |-> "user", content |-> <<"Hi">>,
       sender_type |-> "user"]>>

\* the updates argument: each key present or not (a key whose value is
\* undefined or null is sent as NULL, like a key that is not there)
Pick(key, values) == {<< >>} \cup {MapSet(<< >>, key, v) : v \in values}

Updates ==
    {a @@ b @@ c @@ d :
        a \in Pick("suspicious", BOOLEAN), b \in Pick("risk_level", {0, 5, 9}),
        c \in Pick("needs_human", BOOLEAN),
        d \in Pick("metadata", {[suspicious_reason |-> "injection attempt"]})}

InitUpdate ==
    /\ InitGate
    /\ InitJudgeIdle
    /\ InitSlots
    /\ chat_sessions = UpdateTable
    /\ chat_messages = UpdateMessages

\* one call updateSession(sessionId, updates) whose UPDATE succeeds
UpdateSession(sessionId, updates) ==
    /\ chat_sessions' = updateSession(chat_sessions, sessionId, updates)
    /\ updateIn' = [kind |-> "call", sessionId |-> sessionId, updates |-> updates,
                    sessions |-> chat_sessions, messages |-> chat_messages]
    /\ UNCHANGED <<gateVars, judgeVars, mistralCall, lookups, pc, turn, resp, fx, chat_messages,
                   turns>>

NextUpdate ==
    \E sessionId \in {"s1", "s2", "s3"}, updates \in Updates :
        UpdateSession(sessionId, updates)

SpecUpdate == InitUpdate /\ [][NextUpdate]_vars

(***************************************************************************)
(* The security judge, the history, the two message writes and the         *)
(* generation (STEP 3.5 to STEP 7 of handleChat).                          *)
(***************************************************************************)
\* STEP 4 reading the stored transcript of an existing session also when the
\* request carries a history
LoadHistory_storedFirst(r, t, history) ==
    IF ~t.isNew
    THEN /\ turn' = [turn EXCEPT ![r] =
                        [t EXCEPT !.clientHistory =
                                      IF history.t = "array" THEN history.items ELSE << >>]]
         /\ pc' = [pc EXCEPT ![r] = "getMessages"]
    ELSE IF history.t = "array" /\ history.items # << >>
    THEN /\ turn' = [turn EXCEPT ![r] = [t EXCEPT !.chatHistory = history.items,
                                                   !.clientHistory = history.items]]
         /\ pc' = [pc EXCEPT ![r] = "saveUserMessage"]
    ELSE /\ turn' = [turn EXCEPT ![r] = t]
         /\ pc' = [pc EXCEPT ![r] = "saveUserMessage"]

\* STEP 4 up to the next await: history is the request's history field
LoadHistory(r, t, history) ==
    IF history.t = "array" /\ history.items # << >>
    THEN /\ turn' = [turn EXCEPT ![r] = [t EXCEPT !.chatHistory = history.items,
                                                   !.clientHistory = history.items]]
         /\ pc' = [pc EXCEPT ![r] = "saveUserMessage"]
    ELSE IF ~t.isNew
    THEN /\ turn' = [turn EXCEPT ![r] = t]
         /\ pc' = [pc EXCEPT ![r] = "getMessages"]
    ELSE /\ turn' = [turn EXCEPT ![r] = t]
         /\ pc' = [pc EXCEPT ![r] = "saveUserMessage"]

\* what LoadHistory calls
HistoryCalls(t, history) ==
    IF history.t = "array" /\ history.items # << >> THEN {"saveMessage"}
    ELSE IF ~t.isNew THEN {"getMessages"}
    ELSE {"saveMessage"}

\* handleChat with the elevated band starting above 4 instead of at 4
AnalyzePromptSafety_bandAbove4(r, backend, history) ==
    /\ pc[r] = "analyzePromptSafety"
    /\ UNCHANGED <<gateVars, judgeVars, updateIn, mistralCall, lookups, chat_sessions, chat_messages, turns, resp>>
    /\ LET securityResult == analyzePromptSafety(turn[r].prompt, backend)
           called == IF judgeCallsBackend(turn[r].prompt, backend)
                     THEN {"mistral.chat.complete"} ELSE {}
           t == [turn[r] EXCEPT !.verdict = securityResult,
                                !.backend = IF StrLen(turn[r].prompt) < 10
                                            THEN [kind |-> "none"] ELSE backend]
       IN IF securityResult.isSuspicious
          THEN /\ turn' = [turn EXCEPT ![r] = t]
               /\ pc' = [pc EXCEPT ![r] = "updateSuspicious"]
               /\ Invoke(r, called \cup {"updateSession"})
          ELSE IF securityResult.riskLevel > 4
          THEN /\ turn' = [turn EXCEPT ![r] = t]
               /\ pc' = [pc EXCEPT ![r] = "updateElevated"]
               /\ Invoke(r, called \cup {"updateSession"})
          ELSE /\ LoadHistory(r, t, history)
               /\ Invoke(r, called \cup HistoryCalls(t, history))

\* analyzePromptSafety answers (STEP 3.5), up to the next await
AnalyzePromptSafety(r, backend, history) ==
    /\ pc[r] = "analyzePromptSafety"
    /\ UNCHANGED <<gateVars, judgeVars, updateIn, mistralCall, lookups, chat_sessions, chat_messages, turns, resp>>
    /\ LET securityResult == analyzePromptSafety(turn[r].prompt, backend)
           called == IF judgeCallsBackend(turn[r].prompt, backend)
                     THEN {"mistral.chat.complete"} ELSE {}
           t == [turn[r] EXCEPT !.verdict = securityResult,
                                !.backend = IF StrLen(turn[r].prompt) < 10
                                            THEN [kind |-> "none"] ELSE backend]
       IN IF securityResult.isSuspicious
          THEN /\ turn' = [turn EXCEPT ![r] = t]
               /\ pc' = [pc EXCEPT ![r] = "updateSuspicious"]
               /\ Invoke(r, called \cup {"updateSession"})
          ELSE IF securityResult.riskLevel >= 4
          THEN /\ turn' = [turn EXCEPT ![r] = t]
               /\ pc' = [pc EXCEPT ![r] = "updateElevated"]
               /\ Invoke(r, called \cup {"updateSession"})
          ELSE /\ LoadHistory(r, t, history)
               /\ Invoke(r, called \cup HistoryCalls(t, history))

\* handleChat without the return after the update of a suspicious turn
UpdateSuspicious_fallThrough(r, db) ==
    /\ pc[r] = "updateSuspicious"
    /\ UNCHANGED <<gateVars, judgeVars, updateIn, mistralCall, lookups, chat_messages, turns, resp>>
    /\ chat_sessions' =
          IF db = "fail" THEN chat_sessions
          ELSE updateSession(chat_sessions, turn[r].session.id,
                             [suspicious |-> TRUE,
                              risk_level |-> turn[r].verdict.riskLevel])
    /\ turn' = [turn EXCEPT ![r].updateError = (db = "fail")]
    /\ pc' = [pc EXCEPT ![r] = "saveUserMessage"]
    /\ Invoke(r, {"saveMessage"})

\* updateSession of a suspicious turn answers, and handleChat returns the
\* deflection; a failed UPDATE is swallowed by updateSession
UpdateSuspicious(r, db) ==
    /\ pc[r] = "updateSuspicious"
    /\ UNCHANGED <<gateVars, judgeVars, updateIn, mistralCall, lookups, chat_messages, turns, fx>>
    /\ LET t == [turn[r] EXCEPT !.updateError = (db = "fail")]
           customerType == getCustomerType(t.slug)
       IN /\ chat_sessions' =
                IF db = "fail" THEN chat_sessions
                ELSE updateSession(chat_sessions, t.session.id,
                                   [suspicious |-> TRUE,
                                    risk_level |-> t.verdict.riskLevel,
                                    metadata |-> [companion |-> t.session.metadata.companion,
                                                  ai_name |-> t.session.metadata.ai_name,
                                                  suspicious_reason |-> t.verdict.reason,
                                                  blocked_at |-> now]])
          /\ Return(r, t, [response |-> getBlockedResponse(customerType),
                           sessionId |-> t.session.id,
                           blocked |-> TRUE,
                           suspicious |-> TRUE,
                           riskLevel |-> t.verdict.riskLevel])

\* updateSession throwing the error of a failed UPDATE of an elevated turn
UpdateElevated_abortOnFailure(r, db, history) ==
    /\ pc[r] = "updateElevated"
    /\ UNCHANGED <<gateVars, judgeVars, updateIn, mistralCall, lookups, chat_messages, turns>>
    /\ LET t == [turn[r] EXCEPT !.updateError = (db = "fail")]
       IN IF db = "fail"
          THEN /\ Throw(r, t, "updateSession", DbError)
               /\ UNCHANGED <<chat_sessions, fx>>
          ELSE /\ chat_sessions' = updateSession(chat_sessions, t.session.id,
                                                 [risk_level |-> t.verdict.riskLevel])
               /\ LoadHistory(r, t, history)
               /\ Invoke(r, HistoryCalls(t, history))
               /\ UNCHANGED resp

\* handleChat storing suspicious = false with the level of an elevated turn
UpdateElevated_clearsSuspicious(r, db, history) ==
    /\ pc[r] = "updateElevated"
    /\ UNCHANGED <<gateVars, judgeVars, updateIn, mistralCall, lookups, chat_messages, turns, resp>>
    /\ LET t == [turn[r] EXCEPT !.updateError = (db = "fail")]
       IN /\ chat_sessions' =
                IF db = "fail" THEN chat_sessions
                ELSE updateSession(chat_sessions, t.session.id,
                                   [suspicious |-> FALSE,
                                    risk_level |-> t.verdict.riskLevel])
          /\ LoadHistory(r, t, history)
          /\ Invoke(r, HistoryCalls(t, history))

\* updateSession of an elevated turn answers, then STEP 4
UpdateElevated(r, db, history) ==
    /\ pc[r] = "updateElevated"
    /\ UNCHANGED <<gateVars, judgeVars, updateIn, mistralCall, lookups, chat_messages, turns, resp>>
    /\ LET t == [turn[r] EXCEPT !.updateError = (db = "fail")]
       IN /\ chat_sessions' =
                IF db = "fail" THEN chat_sessions
                ELSE updateSession(chat_sessions, t.session.id,
                                   [risk_level |-> t.verdict.riskLevel])
          /\ LoadHistory(r, t, history)
          /\ Invoke(r, HistoryCalls(t, history))

\* the rows of chat_messages of a session, oldest first
getMessages(table, sessionId) ==
    SelectSeq(table, LAMBDA m : m.session_id = sessionId)

\* getMessages answers (STEP 4)
GetMessages(r, db) ==
    /\ pc[r] = "getMessages"
    /\ UNCHANGED <<gateVars, judgeVars, updateIn, mistralCall, lookups, chat_sessions, chat_messages, turns>>
    /\ IF db = "fail"
       THEN Throw(r, turn[r], "getMessages", DbError) /\ UNCHANGED fx
       ELSE /\ turn' = [turn EXCEPT ![r].chatHistory =
                           getMessages(chat_messages, turn[r].session.id)]
            /\ pc' = [pc EXCEPT ![r] = "saveUserMessage"]
            /\ Invoke(r, {"saveMessage"})
            /\ UNCHANGED resp

\* saveMessage(sessionId, role, content, senderType): the INSERT
saveMessage(table, sessionId, role, content, senderType) ==
    Append(table, [session_id |-> sessionId, role |-> role, content |-> content,
                   sender_type |-> senderType])

\* handleChat calling the generation before the user's message is written
SaveUserMessage_deferred(r, db) ==
    /\ pc[r] = "saveUserMessage"
    /\ UNCHANGED <<gateVars, judgeVars, updateIn, mistralCall, lookups, chat_sessions, chat_messages, turns>>
    /\ pc' = [pc EXCEPT ![r] = "callMistral"]
    /\ Invoke(r, {"callMistral"})
    /\ UNCHANGED <<turn, resp>>

\* saveMessage of the user's message answers (STEP 5)
SaveUserMessage(r, db) ==
    /\ pc[r] = "saveUserMessage"
    /\ UNCHANGED <<gateVars, judgeVars, updateIn, mistralCall, lookups, chat_sessions, turns>>
    /\ IF db = "fail" \/ turn[r].session.id \notin DOMAIN chat_sessions
       THEN /\ Throw(r, turn[r], "saveUserMessage", DbError)
            /\ UNCHANGED <<fx, chat_messages>>
       ELSE /\ chat_messages' = saveMessage(chat_messages, turn[r].session.id,
                                            "user", turn[r].prompt, "user")
            /\ pc' = [pc EXCEPT ![r] = "callMistral"]
            /\ Invoke(r, {"callMistral"})
            /\ UNCHANGED <<turn, resp>>

\* the messages array callMistral builds from the history and the user message
RECURSIVE HistoryMessages(_)
HistoryMessages(history) ==
    IF history = << >> THEN << >>
    ELSE LET msg == Head(history)
         IN (IF msg.role = "assistant" \/ msg.sender_type = "assistant"
             THEN <<[role |-> "assistant", content |-> msg.content]>>
             ELSE IF msg.sender_type = "human"
             THEN <<[role |-> "user",
                     content |-> <<"[PERSONALENS SVAR: ">> \o msg.content \o <<"]">>],
                    [role |-> "assistant",
                     content |-> <<"Jag noterar att personalen har svarat.">>]>>
             ELSE <<[role |-> "user", content |-> msg.content]>>)
            \o HistoryMessages(Tail(history))

RECURSIVE Concat(_)
Concat(chunks) ==
    IF chunks = << >> THEN << >> ELSE Head(chunks).content \o Concat(Tail(chunks))

\* ttft: timer.elapsed() at the first chunk at which it is not 0
Ttft(chunks) ==
    LET seen == {i \in 1..Len(chunks) : chunks[i].at # 0}
    IN IF seen = {} THEN 0 ELSE chunks[SetMin(seen)].at

\* callMistral(systemPrompt, history, userMessage) given what the backend does
callMistral(systemPrompt, history, userMessage, outcome) ==
    LET messages == <<[role |-> "system", content |-> systemPrompt]>>
                    \o HistoryMessages(history)
                    \o <<[role |-> "user", content |-> userMessage]>>
    IN IF outcome.kind = "no_api_key"
       THEN [threw |-> TRUE, message |-> <<"MISTRAL_API_KEY not set - check environment variables">>,
             messages |-> << >>]
       ELSE IF outcome.kind = "throw"
       THEN [threw |-> TRUE,
             message |-> IF outcome.status = 429
                            \/ \E i \in 1..Len(outcome.message) : outcome.message[i] = "429"
                         THEN <<"RATE_LIMITED">> ELSE outcome.message,
             messages |-> messages]
       ELSE [threw |-> FALSE, response |-> Trim(Concat(outcome.chunks)),
             ttft |-> Ttft(outcome.chunks), messages |-> messages]

\* handleChat taking the user's message back when the generation fails
CallMistral_rollback(r, outcome) ==
    /\ pc[r] = "callMistral"
    /\ UNCHANGED <<gateVars, judgeVars, updateIn, mistralCall, lookups, chat_sessions, turns>>
    /\ LET t == turn[r]
           aiResult == callMistral(t.fullSystemPrompt, t.chatHistory, t.prompt, outcome)
       IN IF aiResult.threw
          THEN /\ Throw(r, [t EXCEPT !.messages = aiResult.messages,
                                     !.generation = outcome],
                        "callMistral", aiResult.message)
               /\ Invoke(r, IF outcome.kind = "no_api_key" THEN {}
                            ELSE {"mistral.chat.stream"})
               /\ chat_messages' = SubSeq(chat_messages, 1, Len(chat_messages) - 1)
          ELSE /\ turn' = [turn EXCEPT ![r] =
                              [t EXCEPT !.messages = aiResult.messages,
                                        !.generation = outcome,
                                        !.aiResult = [response |-> aiResult.response,
                                                      ttft |-> aiResult.ttft]]]
               /\ pc' = [pc EXCEPT ![r] = "saveAssistantMessage"]
               /\ Invoke(r, {"mistral.chat.stream", "saveAssistantMessage"})
               /\ UNCHANGED <<resp, chat_messages>>

\* callMistral answers (STEP 6)
CallMistral(r, outcome) ==
    /\ pc[r] = "callMistral"
    /\ UNCHANGED <<gateVars, judgeVars, updateIn, mistralCall, lookups, chat_sessions, chat_messages, turns>>
    /\ LET t == turn[r]
           aiResult == callMistral(t.fullSystemPrompt, t.chatHistory, t.prompt, outcome)
       IN IF aiResult.threw
          THEN /\ Throw(r, [t EXCEPT !.messages = aiResult.messages,
                                     !.generation = outcome],
                        "callMistral", aiResult.message)
               /\ Invoke(r, IF outcome.kind = "no_api_key" THEN {}
                            ELSE {"mistral.chat.stream"})
          ELSE /\ turn' = [turn EXCEPT ![r] =
                              [t EXCEPT !.messages = aiResult.messages,
                                        !.generation = outcome,
                                        !.aiResult = [response |-> aiResult.response,
                                                      ttft |-> aiResult.ttft]]]
               /\ pc' = [pc EXCEPT ![r] = "saveAssistantMessage"]
               /\ Invoke(r, {"mistral.chat.stream", "saveAssistantMessage"})
               /\ UNCHANGED resp

\* saveMessage of the assistant's reply answers (STEP 7), and handleChat returns
SaveAssistantMessage(r, db) ==
    /\ pc[r] = "saveAssistantMessage"
    /\ UNCHANGED <<gateVars, judgeVars, updateIn, mistralCall, lookups, chat_sessions, turns, fx>>
    /\ IF db = "fail"
       THEN /\ Throw(r, turn[r], "saveAssistantMessage", DbError)
            /\ UNCHANGED chat_messages
       ELSE /\ chat_messages' = saveMessage(chat_messages, turn[r].session.id,
                                            "assistant", turn[r].aiResult.response,
                                            "assistant")
            /\ Return(r, turn[r], [response |-> turn[r].aiResult.response,
                                   sessionId |-> turn[r].session.id,
                                   metrics |-> [riskLevel |-> turn[r].verdict.riskLevel,
                                                ttft |-> turn[r].aiResult.ttft]])

(***************************************************************************)
(* callMistral on its own: every history of up to MaxHistory rows, as a    *)
(* client may send it or as chat_messages may hold it, against every       *)
(* stream of up to MaxChunks chunks and a failure.                         *)
(***************************************************************************)
\* a row of a history: role and sender_type as the writer of the row chose
\* them ("" for a sender_type that is missing)
HistoryRows ==
    {[role |-> ro, content |-> c, sender_type |-> st] :
        ro \in {"user", "assistant"}, c \in {<<"hello">>, <<"Hi">>},
        st \in {"", "user", "assistant", "human"}}

SeqsUpTo(S, n) == UNION {[1..k -> S] : k \in 0..n}

\* a stream: the content of each chunk (<< >> for a chunk without content)
\* and timer.elapsed() when it arrives, the first after 0 or 100 ms
Streams ==
    {[kind |-> "stream",
      chunks |-> [i \in 1..Len(cs) |-> [content |-> cs[i], at |-> t0 + 100 * (i - 1)]]] :
        cs \in SeqsUpTo({<< >>, <<"hello">>, <<" ">>}, MaxChunks), t0 \in {0, 100}}

MistralCalls ==
    {[kind |-> "input", history |-> h, outcome |-> o] :
        h \in SeqsUpTo(HistoryRows, MaxHistory),
        o \in Streams \cup {[kind |-> "throw", http |-> 500, status |-> 500,
                              message |-> <<"Service unavailable">>]}}

InitMistral ==
    /\ InitGate
    /\ InitChat
    /\ judgeIn = [prompt |-> << >>, backend |-> [kind |-> "none"]]
    /\ judgeOut = [kind |-> "none"]
    /\ updateIn = [kind |-> "none"]
    /\ mistralCall \in MistralCalls
    /\ lookups = << >>

\* one call callMistral(systemPrompt, history, userMessage)
CallMistralAlone ==
    /\ mistralCall.kind = "input"
    /\ mistralCall' = [kind |-> "call", history |-> mistralCall.history,
                       outcome |-> mistralCall.outcome,
                       result |-> callMistral(<<"Du ar Sofia">>, mistralCall.history,
                                              <<"hello", "!">>, mistralCall.outcome)]
    /\ UNCHANGED <<gateVars, judgeVars, updateIn, lookups, chatVars>>

NextMistral == CallMistralAlone

SpecMistral == InitMistral /\ [][NextMistral]_vars

(***************************************************************************)
(* getCustomerBySlug on its own: a number of calls against the tables as   *)
(* they are, each recorded with the tables before and after it.            *)
(***************************************************************************)
\* the latencies timer.elapsed() may measure for a query, in ms
Latencies == {5, 20}

Null == [null |-> TRUE]

\* a lookup slower than 10 ms answering as if no row was found
getCustomerBySlug_slowIsNull(slug, latencyMs) ==
    IF slug \in KnownSlugs /\ latencyMs <= 10
    THEN CustomerRow(slug) @@ [dbTime |-> latencyMs]
    ELSE Null

\* what getCustomerBySlug(slug) returns when its SELECT took latencyMs
getCustomerBySlug(slug, latencyMs) ==
    IF slug \in KnownSlugs
    THEN CustomerRow(slug) @@ [dbTime |-> latencyMs]
    ELSE Null

InitResolve ==
    /\ InitGate
    /\ InitJudgeIdle
    /\ InitSlots
    /\ chat_sessions = UpdateTable
    /\ chat_messages = UpdateMessages

\* one call getCustomerBySlug(slug): the SELECT answers or throws
Resolve(slug, db, latencyMs) ==
    /\ Len(lookups) < MaxLookups
    /\ UNCHANGED <<gateVars, judgeVars, updateIn, mistralCall, chatVars>>
    /\ lookups' = Append(lookups,
                         [slug |-> slug, threw |-> db = "fail",
                          value |-> IF db = "fail" THEN Null
                                    ELSE getCustomerBySlug(slug, latencyMs),
                          before |-> <<chat_sessions, chat_messages>>,
                          after |-> <<chat_sessions', chat_messages'>>])

\* the slugs looked up: those of the tenants and one that has no row
LookupSlugs == KnownSlugs \cup {<<"ghost">>}

NextResolve ==
    \E slug \in LookupSlugs, db \in DbOutcomes, latencyMs \in Latencies :
        Resolve(slug, db, latencyMs)

SpecResolve == InitResolve /\ [][NextResolve]_vars

(***************************************************************************)
(* The requests the model sends, and the behaviours of the two backends.   *)
(***************************************************************************)
\* x-forwarded-for, x-real-ip and the socket address of a request
Requests ==
    {[forwarded |-> <<"ipA", "ipB">>, realIp |-> "ipB", remoteAddress |-> "ipB"],
     [forwarded |-> << >>, realIp |-> "ipB", remoteAddress |-> "ipA"],
     [forwarded |-> << >>, realIp |-> "", remoteAddress |-> "ipA"],
     [forwarded |-> << >>, realIp |-> "", remoteAddress |-> ""]}

\* the prompt field of a body
Prompts ==
    {[t |-> "undefined"], [t |-> "number"],
     [t |-> "string", chars |-> << >>],
     [t |-> "string", chars |-> <<" ", "NL">>],
     [t |-> "string", chars |-> <<"Hi">>],
     [t |-> "string", chars |-> <<"hello", " ", "Hi", "!">>],
     [t |-> "string", chars |-> <<" ", "hello", "hello", "NL">>],
     [t |-> "string", chars |-> <<"{{", "hello", "}}">>],
     [t |-> "string", chars |-> <<"hello", " ", "drop", " ", "TABLE">>],
     [t |-> "string", chars |-> <<"{{", "NL", "hello", " ", "hello", "}}">>]}

\* the slug field of a body (<< >> when absent)
Slugs == KnownSlugs \cup {<< >>, <<"ghost">>}

\* the sessionId field of a body ("" when absent): a UUID the client invents, a
\* text that is no UUID, or the id of a session that exists
SessionIds(table) == {"", "s1", "blocked"} \cup DOMAIN table

\* the companion field of a body ("" when absent)
Companions == {"", "astrid", "luigi"}

\* the history field of a body
Histories ==
    {[t |-> "undefined"], [t |-> "string"], [t |-> "array", items |-> << >>],
     [t |-> "array",
      items |-> <<[role |-> "assistant", content |-> <<"hello">>, sender_type |-> ""],
                  [role |-> "", content |-> <<"hello">>, sender_type |-> "human"]>>]}

Bodies(table) ==
    {[kind |-> "malformed"]}
    \cup {[kind |-> "object", prompt |-> p, slug |-> s, customerId |-> c, sessionId |-> i] :
            p \in Prompts, s \in Slugs, c \in {"", "c-bella"}, i \in SessionIds(table)}

\* what the judge's backend does in a turn of the pipeline
ChatBackends ==
    {[kind |-> "throw", cause |-> c, elapsed |-> 350] : c \in {"no_api_key", "network"}}
    \cup Replies({<<"txt">>},
                 {[riskLevel |-> JSNum(90), isSuspicious |-> JSBool(TRUE),
                   reason |-> "injection attempt"]},
                 {[riskLevel |-> JSNum(20), isSuspicious |-> JSBool(FALSE),
                   reason |-> "normal question"]})
    \cup Replies({<<"txt", "objA", "txt">>},
                 {[riskLevel |-> v, isSuspicious |-> JSBool(FALSE),
                   reason |-> "injection attempt"] :
                     v \in {JSNum(20), JSNum(30), JSNum(40), JSNum(50), JSNum(60),
                            JSNum(70), JSNum(90), JSUndefined,
                            JSStr(<<"h", "i">>), JSStr(<<"7", "x">>)}},
                 {[riskLevel |-> JSNum(20), isSuspicious |-> JSBool(FALSE),
                   reason |-> "normal question"]})

\* what the generation backend does in a turn of the pipeline; of a failed
\* call, http is the status of the upstream response, status and message are
\* the properties of the error the client library throws (status 0: none)
Generations ==
    {[kind |-> "no_api_key"],
     [kind |-> "throw", http |-> 429, status |-> 429,
      message |-> <<"Too Many Requests">>],
     [kind |-> "throw", http |-> 429, status |-> 0, message |-> <<"Status ", "429">>],
     [kind |-> "throw", http |-> 500, status |-> 500,
      message |-> <<"Service unavailable">>],
     [kind |-> "throw", http |-> 500, status |-> 500,
      message |-> <<"Request ", "429", " failed">>],
     [kind |-> "stream", chunks |-> << >>],
     [kind |-> "stream", chunks |-> <<[content |-> <<"hello">>, at |-> 120]>>],
     [kind |-> "stream", chunks |-> <<[content |-> << >>, at |-> 100],
                                      [content |-> <<" ", "hello">>, at |-> 200]>>]}

\* the steps of a request that is past the gate, for given sets of inputs
Steps(r, bodies, companions, backends, histories, generations) ==
    \/ \E body \in bodies : ParseBody(r, body)
    \/ \E db \in DbOutcomes, companion \in companions : GetCustomerBySlug(r, db, companion)
    \/ \E db \in DbOutcomes : GetCompanion(r, db)
    \/ \E db \in DbOutcomes : SelectSession(r, db)
    \/ \E db \in DbOutcomes : InsertSession(r, db)
    \/ \E backend \in backends, history \in histories :
          AnalyzePromptSafety(r, backend, history)
    \/ \E db \in DbOutcomes : UpdateSuspicious(r, db)
    \/ \E db \in DbOutcomes, history \in histories : UpdateElevated(r, db, history)
    \/ \E db \in DbOutcomes : GetMessages(r, db)
    \/ \E db \in DbOutcomes : SaveUserMessage(r, db)
    \/ \E outcome \in generations : CallMistral(r, outcome)
    \/ \E db \in DbOutcomes : SaveAssistantMessage(r, db)

Pipeline(r) ==
    Steps(r, Bodies(chat_sessions), Companions, ChatBackends, Histories, Generations)

(***************************************************************************)
(* Spec: one request with every input above, against a database that is    *)
(* empty or holds what earlier turns left: a session of an earlier turn    *)
(* with its two messages, flagged by the judge or not.                     *)
(***************************************************************************)
EarlierMessages ==
    <<[session_id |-> "s1", role |-> "user", content |-> <<"hello", " ", "hello">>,
       sender_type |-> "user"],
      [session_id |-> "s1", role |-> "assistant", content |-> <<"hello">>,
       sender_type |-> "assistant"]>>

Databases ==
    {[sessions |-> << >>, messages |-> << >>],
     [sessions |-> MapSet(<< >>, "s1",
                          [customer_id |-> "c-bella",
                           metadata |-> [companion |-> "", ai_name |-> "Sofia"],
                           suspicious |-> FALSE, risk_level |-> 0, needs_human |-> FALSE]),
      messages |-> EarlierMessages],
     [sessions |-> MapSet(<< >>, "s1",
                          [customer_id |-> "c-elder",
                           metadata |-> [companion |-> "astrid", ai_name |-> "Astrid"],
                           suspicious |-> TRUE, risk_level |-> 8, needs_human |-> FALSE]),
      messages |-> EarlierMessages]}

Init ==
    /\ InitGate
    /\ InitJudgeIdle
    /\ InitSlots
    /\ \E d \in Databases : chat_sessions = d.sessions /\ chat_messages = d.messages

Next ==
    \/ \E req \in Requests : pc["r1"] = "idle" /\ Arrive("r1", req)
    \/ Pipeline("r1")

Spec == Init /\ [][Next]_vars

(***************************************************************************)
(* SpecFlood: one client sends request after request, so that the gate     *)
(* fills up and denies; at most MaxTurns of the requests enter handleChat. *)
(***************************************************************************)
FloodRequest == [forwarded |-> << >>, realIp |-> "", remoteAddress |-> "ipA"]

FloodBodies(table) ==
    {[kind |-> "malformed"],
     [kind |-> "object", prompt |-> [t |-> "undefined"], slug |-> <<"bella", "italia">>,
      customerId |-> "", sessionId |-> ""]}
    \cup {[kind |-> "object", prompt |-> [t |-> "string", chars |-> p],
           slug |-> <<"bella", "italia">>, customerId |-> "", sessionId |-> i] :
            p \in {<<"hello", " ", "hello">>, <<"{{", "hello", "}}">>},
            i \in {""} \cup DOMAIN table}

FloodBackends ==
    Replies({<<"objA">>},
            {[riskLevel |-> JSNum(v), isSuspicious |-> JSBool(FALSE), reason |-> ""] :
                v \in {20, 50, 90}},
            {[riskLevel |-> JSNum(20), isSuspicious |-> JSBool(FALSE),
              reason |-> "normal question"]})

FloodGenerations ==
    {[kind |-> "throw", http |-> 429, status |-> 429,
      message |-> <<"Too Many Requests">>],
     [kind |-> "stream", chunks |-> <<[content |-> <<"hello">>, at |-> 120]>>]}

NextFlood ==
    \/ pc["r1"] \in {"idle", "done"} /\ Arrive("r1", FloodRequest)
    \/ Steps("r1", FloodBodies(chat_sessions), {"", "luigi"}, FloodBackends,
             {[t |-> "undefined"]}, FloodGenerations)

SpecFlood == InitServer /\ [][NextFlood]_vars

(***************************************************************************)
(* SpecLive: the requests of SpecFlood under the progress the code         *)
(* guarantees.  The body of a request arrives and every query is answered  *)
(* (with rows or with an error).  For mistral.chat.complete and            *)
(* mistral.chat.stream the code sets no timeout and starts no timer: their *)
(* answers are steps of the backend alone, which may never come.           *)
(***************************************************************************)
Answered_Queries(r) ==
    \/ \E body \in FloodBodies(chat_sessions) : ParseBody(r, body)
    \/ \E db \in DbOutcomes, companion \in {"", "luigi"} : GetCustomerBySlug(r, db, companion)
    \/ \E db \in DbOutcomes : GetCompanion(r, db)
    \/ \E db \in DbOutcomes : SelectSession(r, db)
    \/ \E db \in DbOutcomes : InsertSession(r, db)
    \/ \E db \in DbOutcomes : UpdateSuspicious(r, db)
    \/ \E db \in DbOutcomes : UpdateElevated(r, db, [t |-> "undefined"])
    \/ \E db \in DbOutcomes : GetMessages(r, db)
    \/ \E db \in DbOutcomes : SaveUserMessage(r, db)
    \/ \E db \in DbOutcomes : SaveAssistantMessage(r, db)

SpecLive == InitServer /\ [][NextFlood]_vars /\ WF_vars(Answered_Queries("r1"))

(***************************************************************************)
(* SpecRace: two requests of one client in flight at the same time, both   *)
(* with the sessionId the client invented; every await of one may be       *)
(* overtaken by the steps of the other.                                    *)
(***************************************************************************)
RaceBodies ==
    {[kind |-> "object", prompt |-> [t |-> "string", chars |-> <<"hello", " ", "hello">>],
      slug |-> <<"bella", "italia">>, customerId |-> "", sessionId |-> "s1"]}

NextRace ==
    \/ \E r \in Slots : pc[r] = "idle" /\ Arrive(r, FloodRequest)
    \/ \E r \in Slots :
          Steps(r, RaceBodies, {"", "luigi"}, FloodBackends, {[t |-> "undefined"]},
                FloodGenerations)

SpecRace == InitServer /\ [][NextRace]_vars

(***************************************************************************)
(* Rate limiter: properties.                                               *)
(***************************************************************************)

\* C1: for every key, every time interval of length windowMs contains at
\* most maxRequests admitted requests: maxRequests + 1 consecutive
\* admissions of a key never lie less than windowMs apart.
C1_AtMostMaxPerInterval ==
    \A k \in Keys :
        Len(admitted[k]) = LogLen =>
            admitted[k][LogLen] - admitted[k][1] >= windowMs

\* C2: a denial carries retryAfter = ceil((windowMs - (now - windowStart)) / 1000)
\* and that value is strictly positive.
C2_DenialRetryAfterPositive ==
    (lastCheck # NoCall /\ ~lastCheck.result.allowed) =>
        /\ lastCheck.result.retryAfter =
              Ceil(windowMs - (lastCheck.at - lastCheck.pre.windowStart), 1000)
        /\ lastCheck.result.retryAfter > 0

\* the admissions of key k logged at or after time t
AdmittedSince(k, t) ==
    Cardinality({i \in 1..Len(admitted[k]) : admitted[k][i] >= t})

\* C3: every table entry has 1 <= count <= maxRequests, and count is the
\* number of requests admitted for the key since its windowStart.
C3_CountIsAdmissionsInWindow ==
    \A k \in DOMAIN requestCounts :
        /\ requestCounts[k].count >= 1
        /\ requestCounts[k].count <= maxRequests
        /\ requestCounts[k].count = AdmittedSince(k, requestCounts[k].windowStart)

\* C5: a call resets the window (entry = [count 1, windowStart now], request
\* admitted, remaining = maxRequests - 1) exactly when the key has no entry
\* or now - windowStart > windowMs; a key without entry is always admitted.
C5_ResetExactlyWhenAbsentOrExpired ==
    lastCheck # NoCall =>
        LET expired == \/ ~lastCheck.had
                       \/ lastCheck.at - lastCheck.pre.windowStart > windowMs
            reset   == /\ lastCheck.result.allowed
                       /\ lastCheck.post = [count |-> 1, windowStart |-> lastCheck.at]
        IN /\ expired <=> reset
           /\ expired => lastCheck.result.remaining = maxRequests - 1
           /\ ~lastCheck.had => lastCheck.result.allowed

\* a key that was admitted before, lost its entry to the sweep and is admitted anew
C5_Witness ==
    /\ lastCheck # NoCall
    /\ ~lastCheck.had
    /\ Len(admitted[lastCheck.key]) >= 2
    /\ lastCheck.result.allowed

(***************************************************************************)
(* Security judge: properties.                                             *)
(***************************************************************************)

\* the backend's reply with its isSuspicious fields set to b
WithSuspicious(backend, b) ==
    IF backend.kind = "reply"
    THEN [backend EXCEPT !.objA.isSuspicious = b, !.objB.isSuspicious = b]
    ELSE backend

\* C8: every verdict has an integer riskLevel in 1..10, isSuspicious is true
\* exactly when riskLevel >= 7, and the reply's own isSuspicious field does
\* not change the verdict.
C8_VerdictClampedAndThreshold ==
    judgeOut.kind = "verdict" =>
        /\ judgeOut.verdict.riskLevel \in 1..10
        /\ judgeOut.verdict.isSuspicious <=> judgeOut.verdict.riskLevel >= 7
        /\ \A b \in {JSBool(TRUE), JSBool(FALSE), JSUndefined} :
              analyzePromptSafety(judgeIn.prompt, WithSuspicious(judgeIn.backend, b))
                  = judgeOut.verdict

\* the backend replied 250 with isSuspicious false: the verdict is 10, suspicious
C8_Witness ==
    /\ judgeOut.kind = "verdict"
    /\ judgeIn.backend.kind = "reply"
    /\ judgeIn.backend.content = <<"txt", "objA">>
    /\ judgeIn.backend.objA.riskLevel = JSNum(2500)
    /\ judgeIn.backend.objA.isSuspicious = JSBool(FALSE)
    /\ judgeOut.verdict.riskLevel = 10
    /\ judgeOut.verdict.isSuspicious

(***************************************************************************)
(* The pipeline: properties.                                               *)
(***************************************************************************)

\* C3 witness: a full window of one client next to another client's entry,
\* after the sweep has run
C3_Witness ==
    /\ "ipA" \in DOMAIN requestCounts
    /\ requestCounts["ipA"].count = maxRequests
    /\ "ipB" \in DOMAIN requestCounts
    /\ nextCleanup > cleanupIntervalMs

\* C4: when the gate denies a request, the response is 429 with a
\* Retry-After header and the request is over: nothing but rateLimit was
\* invoked for it (no body parsing, validation, quick filter, lookup,
\* classifier, generation or message write).
C4_DenialIsTerminal ==
    (lastCheck # NoCall /\ ~lastCheck.result.allowed) =>
        /\ pc["r1"] = "done"
        /\ resp["r1"].status = 429
        /\ "retryAfter" \in DOMAIN resp["r1"].headers
        /\ resp["r1"].headers.retryAfter = lastCheck.result.retryAfter
        /\ fx["r1"] = {"rateLimit"}
        /\ turn["r1"] = NoTurn

\* a denial after turns that wrote messages
C4_Witness ==
    /\ lastCheck # NoCall
    /\ ~lastCheck.result.allowed
    /\ resp["r1"].status = 429
    /\ Len(chat_messages) >= 2

\* C6: a turn whose prompt matches a pattern of the quick filter is blocked
\* with blocked = true, suspicious = true and risk level 10, and
\* analyzePromptSafety is not invoked for it.
C6_QuickBlockIsSuspicious ==
    \A r \in Slots :
        (turn[r] # NoTurn /\ pc[r] = "done" /\ "handleChat" \in fx[r]
            /\ quickSafetyCheck(turn[r].prompt).blocked) =>
            /\ "blocked" \in DOMAIN turn[r].result
            /\ turn[r].result.blocked
            /\ "suspicious" \in DOMAIN turn[r].result
            /\ turn[r].result.suspicious
            /\ turn[r].result.riskLevel = 10
            /\ "analyzePromptSafety" \notin fx[r]

\* the reply holds no JSON object that parses
Unparsable(b) ==
    /\ b.kind = "reply"
    /\ \/ jsonMatch(b.content) = << >>
       \/ ~jsonParse(jsonMatch(b.content), b).ok

\* the riskLevel field of a reply that parses
ReplyRiskLevel(b) == jsonParse(jsonMatch(b.content), b).value.riskLevel

\* v is neither a number nor a string of digits
NonNumeric(v) ==
    /\ v.t # "number"
    /\ ~(v.t = "string" /\ v.chars # << >> /\ \A i \in 1..Len(v.chars) : IsDigit(v.chars[i]))

\* v is neither a number nor a string that starts with an integer
NoLeadingInteger(v) ==
    /\ v.t # "number"
    /\ ~(v.t = "string" /\ ~ParseIntChars(v.chars).nan)

\* the turn of slot r went on past the judge with level 1: not blocked, no
\* session update, and generation called unless a database step failed
FailsOpen(r) ==
    /\ turn[r].verdict.riskLevel = 1
    /\ ~turn[r].verdict.isSuspicious
    /\ "updateSession" \notin fx[r]
    /\ pc[r] \in {"getMessages", "saveUserMessage", "callMistral",
                  "saveAssistantMessage", "done"}
    /\ pc[r] = "done" =>
          /\ "blocked" \notin DOMAIN turn[r].result
          /\ "callMistral" \in fx[r] \/ turn[r].result = Caught(DbError)

TenantType(customerId) ==
    CASE customerId = "c-elder" -> "eldercare"
      [] customerId = "c-bella" -> "restaurant"
      [] customerId = "c-verkstad" -> "auto-shop"
      [] OTHER -> "general"

TenantTypes == {"eldercare", "restaurant", "auto-shop", "general"}

\* C9: a turn whose verdict is suspicious (riskLevel >= 7) returns the
\* deflection text of its tenant's type with blocked = true, calls no
\* generation, and appends no message to the transcript.
C9_SuspiciousShortCircuits ==
    /\ \A a, b \in TenantTypes : a # b => getBlockedResponse(a) # getBlockedResponse(b)
    /\ \A r \in Slots :
        (turn[r] # NoTurn /\ turn[r].verdict.riskLevel >= 7) =>
            /\ pc[r] \in {"updateSuspicious", "done"}
            /\ fx[r] \cap {"callMistral", "mistral.chat.stream", "saveMessage",
                           "saveAssistantMessage", "getMessages"} = {}
            /\ \E d \in Databases : chat_messages = d.messages
            /\ pc[r] = "done" =>
                  /\ turn[r].result.response =
                        getBlockedResponse(TenantType(turn[r].customer.id))
                  /\ turn[r].result.blocked
                  /\ resp[r].status = 200
                  /\ resp[r].body.response = turn[r].result.response

\* a suspicious turn of the eldercare tenant on a session that has messages
C9_Witness ==
    /\ turn["r1"] # NoTurn
    /\ pc["r1"] = "done"
    /\ turn["r1"].verdict.riskLevel = 9
    /\ turn["r1"].customer.id = "c-elder"
    /\ turn["r1"].result.response = getBlockedResponse("eldercare")
    /\ chat_messages = EarlierMessages

\* C10: after a turn whose verdict is suspicious and whose session update
\* succeeded, the session's row has suspicious = true and risk_level equal
\* to the verdict's riskLevel.
C10_SuspiciousFlagsStored ==
    \A r \in Slots :
        (turn[r] # NoTurn /\ pc[r] = "done" /\ turn[r].verdict.riskLevel >= 7
            /\ turn[r].verdict.isSuspicious /\ ~turn[r].updateError) =>
            /\ turn[r].session.id \in DOMAIN chat_sessions
            /\ chat_sessions[turn[r].session.id].suspicious
            /\ chat_sessions[turn[r].session.id].risk_level = turn[r].verdict.riskLevel

\* a suspicious turn at level 7 on a session that was stored with level 8
C10_Witness ==
    /\ turn["r1"] # NoTurn
    /\ pc["r1"] = "done"
    /\ turn["r1"].verdict.riskLevel = 7
    /\ ~turn["r1"].updateError
    /\ ~turn["r1"].isNew
    /\ turn["r1"].session.risk_level = 8
    /\ chat_sessions[turn["r1"].session.id].risk_level = 7

\* C11: after a turn whose verdict is suspicious and whose session update
\* succeeded, the session's stored metadata holds the verdict's reason and
\* the time of the block, next to the keys it had before.
C11_MetadataExtended ==
    \A r \in Slots :
        (turn[r] # NoTurn /\ pc[r] = "done" /\ turn[r].verdict.riskLevel >= 7
            /\ ~turn[r].updateError) =>
            LET stored == chat_sessions[turn[r].session.id].metadata
                before == turn[r].session.metadata
            IN /\ "suspicious_reason" \in DOMAIN stored
               /\ stored.suspicious_reason = turn[r].verdict.reason
               /\ "blocked_at" \in DOMAIN stored
               /\ \A k \in DOMAIN before : k \in DOMAIN stored /\ stored[k] = before[k]

\* C12 as stated: when a turn that was assessed is over, the stored
\* risk_level of its session is the level assessed in that turn.
C12_StoredIsLatestAssessment ==
    \A r \in Slots :
        (turn[r] # NoTurn /\ pc[r] = "done" /\ turn[r].verdict.riskLevel >= 1) =>
            chat_sessions[turn[r].session.id].risk_level = turn[r].verdict.riskLevel

\* C12 amended: when a turn that was assessed is over, the stored risk_level
\* of its session is the level assessed in that turn if that level is 4 or
\* more and the update succeeded, and otherwise the level stored before the
\* turn: the latest stored assessment, never a maximum of earlier ones.
C12_StoredIsLatestStoredAssessment ==
    \A r \in Slots :
        (turn[r] # NoTurn /\ pc[r] = "done" /\ turn[r].verdict.riskLevel >= 1) =>
            chat_sessions[turn[r].session.id].risk_level =
                IF turn[r].verdict.riskLevel >= 4 /\ ~turn[r].updateError
                THEN turn[r].verdict.riskLevel
                ELSE turn[r].session.risk_level

\* a turn assessed at 5 on a session stored at 9 by an earlier turn
C12_Witness ==
    /\ turn["r1"] # NoTurn
    /\ pc["r1"] = "done"
    /\ turn["r1"].verdict.riskLevel = 5
    /\ ~turn["r1"].isNew
    /\ turn["r1"].session.risk_level = 9
    /\ chat_sessions[turn["r1"].session.id].risk_level = 5

\* the steps of handleChat after the verdict's session update
AfterUpdate == {"getMessages", "saveUserMessage", "callMistral",
                "saveAssistantMessage", "done"}

\* a turn that was assessed and not found suspicious went on through the
\* history load, the write of the user's message and the generation, as far
\* as the datastore and the generation backend let it
Proceeds(r) ==
    /\ pc[r] \in AfterUpdate \cup {"updateElevated"}
    /\ fx[r] \cap {"getMessages", "saveMessage"} # {} <=> pc[r] \in AfterUpdate
    /\ pc[r] \in {"callMistral", "saveAssistantMessage"} => "callMistral" \in fx[r]
    /\ pc[r] = "done" =>
          /\ turn[r].thrown.at \in {"none", "getMessages", "saveUserMessage",
                                     "callMistral", "saveAssistantMessage"}
          /\ turn[r].thrown.at \in {"none", "callMistral", "saveAssistantMessage"}
                => "callMistral" \in fx[r]
          /\ turn[r].thrown.at = "none" =>
                /\ "mistral.chat.stream" \in fx[r]
                /\ "blocked" \notin DOMAIN turn[r].result
                /\ turn[r].result.response = turn[r].aiResult.response
                /\ resp[r].status = 200

\* C13: a verdict that is not suspicious with riskLevel 4 to 6 issues the
\* session update, which stores that level and leaves the suspicious flag,
\* and the turn goes on to history, user message and generation; with
\* riskLevel 1 to 3 no session update is issued, the session's row stays as
\* it was, and the turn goes on the same way.
C13_BandsOfUnsuspiciousVerdict ==
    \A r \in Slots :
        (turn[r] # NoTurn /\ turn[r].verdict.riskLevel >= 1
            /\ ~turn[r].verdict.isSuspicious) =>
            LET level == turn[r].verdict.riskLevel
                stored == chat_sessions[turn[r].session.id]
            IN /\ level \in 1..6
               /\ Proceeds(r)
               /\ level \in 4..6 =>
                     /\ "updateSession" \in fx[r]
                     /\ (pc[r] \in AfterUpdate /\ ~turn[r].updateError) =>
                           /\ stored.risk_level = level
                           /\ stored.suspicious = turn[r].session.suspicious
               /\ level \in 1..3 =>
                     /\ "updateSession" \notin fx[r]
                     /\ pc[r] # "updateElevated"
                     /\ stored.risk_level = turn[r].session.risk_level
                     /\ stored.suspicious = turn[r].session.suspicious

\* an answered turn assessed at 4 on a flagged session that was stored at 8
C13_Witness ==
    /\ turn["r1"] # NoTurn
    /\ pc["r1"] = "done"
    /\ turn["r1"].verdict.riskLevel = 4
    /\ turn["r1"].thrown.at = "none"
    /\ ~turn["r1"].updateError
    /\ turn["r1"].session.risk_level = 8
    /\ chat_sessions[turn["r1"].session.id].risk_level = 4
    /\ chat_sessions[turn["r1"].session.id].suspicious
    /\ resp["r1"].status = 200

\* C14: a prompt of fewer than 10 characters that passed the quick filter
\* is given riskLevel 1, isSuspicious false and analysisTime 0 without a call
\* of the judge's backend, and the turn goes on to generation.
C14_ShortPromptSkipsJudge ==
    \A r \in Slots :
        (turn[r] # NoTurn /\ turn[r].verdict.riskLevel # 0
            /\ StrLen(turn[r].prompt) < 10) =>
            /\ ~quickSafetyCheck(turn[r].prompt).blocked
            /\ "mistral.chat.complete" \notin fx[r]
            /\ turn[r].verdict.riskLevel = 1
            /\ ~turn[r].verdict.isSuspicious
            /\ turn[r].verdict.analysisTime = 0
            /\ "updateSession" \notin fx[r]
            /\ Proceeds(r)

\* an answered turn whose prompt has 9 characters
C14_Witness ==
    /\ turn["r1"] # NoTurn
    /\ pc["r1"] = "done"
    /\ StrLen(turn["r1"].prompt) = 9
    /\ turn["r1"].verdict.riskLevel = 1
    /\ turn["r1"].thrown.at = "none"
    /\ "mistral.chat.stream" \in fx["r1"]
    /\ "mistral.chat.complete" \notin fx["r1"]
    /\ resp["r1"].status = 200

\* the rows a turn writes for its user message and for its assistant message
UserMessage(t) ==
    [session_id |-> t.session.id, role |-> "user", content |-> t.prompt,
     sender_type |-> "user"]

AssistantMessage(t) ==
    [session_id |-> t.session.id, role |-> "assistant",
     content |-> t.aiResult.response, sender_type |-> "assistant"]

\* handleChat returned the reply of the generation
Answered(t) == "response" \in DOMAIN t.result /\ "blocked" \notin DOMAIN t.result

\* the transcript of the session of a turn
Transcript(t) == getMessages(chat_messages, t.session.id)

\* C15: the generation is issued only when the turn's user message is the
\* last row of the transcript, the assistant message is written only after
\* a generation that succeeded, and in the transcript of every session
\* (turns one after another) each assistant message stands directly after
\* the user message of its turn.
C15_UserThenAssistant ==
    /\ \A r \in Slots :
          turn[r] # NoTurn =>
            LET T == Transcript(turn[r])
                n == Len(T)
            IN /\ fx[r] \cap {"callMistral", "mistral.chat.stream"} # {} =>
                     /\ n >= 1
                     /\ T[IF Answered(turn[r]) THEN n - 1 ELSE n]
                           = UserMessage(turn[r])
               /\ "mistral.chat.stream" \in fx[r] => "callMistral" \in fx[r]
               /\ "saveAssistantMessage" \in fx[r] =>
                     /\ "mistral.chat.stream" \in fx[r]
                     /\ turn[r].generation.kind = "stream"
               /\ Answered(turn[r]) =>
                     /\ "saveAssistantMessage" \in fx[r]
                     /\ n >= 2
                     /\ T[n] = AssistantMessage(turn[r])
    /\ \A s \in DOMAIN chat_sessions :
          LET T == getMessages(chat_messages, s)
          IN \A i \in 1..Len(T) :
                T[i].role = "assistant" => i > 1 /\ T[i - 1].role = "user"

\* the second answered turn of a session: user, assistant, user, assistant
C15_Witness ==
    /\ turn["r1"] # NoTurn
    /\ pc["r1"] = "done"
    /\ Answered(turn["r1"])
    /\ Len(Transcript(turn["r1"])) = 4
    /\ Transcript(turn["r1"])[2].role = "assistant"
    /\ Transcript(turn["r1"])[3] = UserMessage(turn["r1"])
    /\ Transcript(turn["r1"])[4] = AssistantMessage(turn["r1"])

\* the rows of the transcript that were there when the turn loaded its session
\* (the seeded rows of the session, none for a new one)
RowsBefore(t) ==
    IF t.isNew THEN << >> ELSE getMessages(EarlierMessages, t.session.id)

\* C16: a turn whose generation failed after its user message was written is
\* over with an error result; the transcript is the earlier rows followed by
\* that user message, without an assistant message of the turn; the session
\* and its stored level are still there, and the generation is not issued
\* again.
C16_FailedGenerationKeepsUserMessage ==
    \A r \in Slots :
        (turn[r] # NoTurn /\ turn[r].thrown.at = "callMistral") =>
            /\ pc[r] = "done"
            /\ turn[r].generation.kind \in {"throw", "no_api_key"}
            /\ turn[r].result.error # << >>
            /\ turn[r].result.status \in {429, 500}
            /\ resp[r].status = turn[r].result.status
            /\ "response" \notin DOMAIN turn[r].result
            /\ Transcript(turn[r]) = Append(RowsBefore(turn[r]), UserMessage(turn[r]))
            /\ "saveAssistantMessage" \notin fx[r]
            /\ turn[r].session.id \in DOMAIN chat_sessions
            /\ (turn[r].verdict.riskLevel >= 4 /\ ~turn[r].updateError) =>
                  chat_sessions[turn[r].session.id].risk_level = turn[r].verdict.riskLevel

\* a turn on a session with earlier messages whose generation was refused
C16_Witness ==
    /\ turn["r1"] # NoTurn
    /\ pc["r1"] = "done"
    /\ turn["r1"].thrown.at = "callMistral"
    /\ turn["r1"].generation.kind = "throw"
    /\ RowsBefore(turn["r1"]) # << >>
    /\ Len(Transcript(turn["r1"])) = Len(RowsBefore(turn["r1"])) + 1
    /\ resp["r1"].status = 500

\* the generation of a turn failed on a rate-limit response of the upstream
UpstreamRateLimit(t) ==
    /\ t.thrown.at = "callMistral"
    /\ t.generation.kind = "throw"
    /\ t.generation.http = 429

\* the steps of handleChat whose failure is a datastore failure
DatastoreSteps == {"getCustomerBySlug", "getCompanion", "selectSession", "insertSession",
                   "getMessages", "saveUserMessage", "saveAssistantMessage"}

\* C17: a turn that failed ends with handleChat returning an error result,
\* never throwing; a rate-limit failure of the generation (upstream status
\* 429) reaches handleChat as RATE_LIMITED and gives status 429; every other
\* failure of the generation and every datastore failure gives status 500.
C17_ErrorClassification ==
    \A r \in Slots :
        (turn[r] # NoTurn /\ turn[r].thrown.at # "none") =>
            /\ pc[r] = "done"
            /\ turn[r].thrown.at \in DatastoreSteps \cup {"callMistral"}
            /\ DOMAIN turn[r].result = {"error", "status"}
            /\ IF UpstreamRateLimit(turn[r])
               THEN /\ turn[r].thrown.message = <<"RATE_LIMITED">>
                    /\ turn[r].result.status = 429
               ELSE turn[r].result.status = 500

\* C18: a session update that fails is reported by updateSession, not
\* thrown: the row stays as it was and the turn goes on as after an update
\* that succeeded, a suspicious turn to the deflection, a turn of the middle
\* band to history, user message and generation.
C18_FailedUpdateDoesNotAbort ==
    \A r \in Slots :
        (turn[r] # NoTurn /\ turn[r].updateError) =>
            LET t == turn[r]
                stored == chat_sessions[t.session.id]
            IN /\ t.verdict.riskLevel >= 4
               /\ "updateSession" \in fx[r]
               /\ stored.risk_level = t.session.risk_level
               /\ stored.suspicious = t.session.suspicious
               /\ t.verdict.riskLevel >= 7 =>
                     /\ pc[r] = "done"
                     /\ t.thrown.at = "none"
                     /\ t.result = [response |-> getBlockedResponse(getCustomerType(t.slug)),
                                     sessionId |-> t.session.id, blocked |-> TRUE,
                                     suspicious |-> TRUE, riskLevel |-> t.verdict.riskLevel]
                     /\ resp[r].status = 200
                     /\ resp[r].body.response = t.result.response
               /\ t.verdict.riskLevel \in 4..6 =>
                     /\ pc[r] \in AfterUpdate
                     /\ Proceeds(r)

\* an answered turn of the middle band whose session update failed
C18_Witness ==
    /\ turn["r1"] # NoTurn
    /\ pc["r1"] = "done"
    /\ turn["r1"].updateError
    /\ turn["r1"].verdict.riskLevel = 6
    /\ Answered(turn["r1"])
    /\ resp["r1"].status = 200
    /\ chat_sessions[turn["r1"].session.id].risk_level = 0

Flags == {"suspicious", "risk_level", "needs_human"}

SessionSettled(t) ==
    \/ t.session.id # ""
    \/ t.thrown.at \in {"selectSession", "insertSession"} /\ t.thrown.message # DbError

\* C20: when getOrCreateSession is over, a sessionId that was given and has
\* a row gave that row back with isNew = false, its flags as stored, and no
\* row written; a sessionId that was given and has no row gave a new row
\* with that id and isNew = true; no sessionId gave a new row with a
\* generated id.
C20_GetOrCreateSession ==
    \A r \in Slots :
        (turn[r] # NoTurn /\ SessionSettled(turn[r])) =>
            LET t == turn[r]
            IN IF t.sessionId # "" /\ t.sessionId \in DOMAIN t.before
               THEN /\ t.session = [id |-> t.sessionId] @@ t.before[t.sessionId]
                    /\ ~t.isNew
                    /\ DOMAIN chat_sessions = DOMAIN t.before
                    /\ pc[r] = "analyzePromptSafety" => chat_sessions = t.before
               ELSE /\ t.thrown.at \notin {"selectSession", "insertSession"}
                    /\ t.isNew
                    /\ IF t.sessionId # "" THEN t.session.id = t.sessionId
                       ELSE t.session.id \in GenIdSet \ DOMAIN t.before
                    /\ DOMAIN chat_sessions = DOMAIN t.before \cup {t.session.id}
                    /\ t.session.customer_id = t.customer.id
                    /\ ~t.session.suspicious /\ t.session.risk_level = 0

\* C21: of two turns in flight that supply the same sessionId, which had no
\* row, each obtains the session with that id once its getOrCreateSession
\* is over (datastore outages apart), and the table holds one row for it.
C21_SameIdCreatedOnce ==
    \A r \in Slots :
        (turn[r] # NoTurn /\ turn[r].sessionId = "s1" /\ SessionSettled(turn[r])) =>
            /\ turn[r].thrown.at \notin {"selectSession", "insertSession"}
            /\ turn[r].session.id = "s1"
            /\ DOMAIN chat_sessions = {"s1"}

\* the slug of the turn was given and is the slug of no customer
UnknownTenant(t) == t.slug # << >> /\ t.slug \notin KnownSlugs

\* what a turn invokes once its tenant is resolved
AfterTenant == {"getCompanion", "getOrCreateSession", "analyzePromptSafety",
                "mistral.chat.complete", "updateSession", "getMessages", "saveMessage",
                "callMistral", "mistral.chat.stream", "saveAssistantMessage"}

\* C22: a turn whose slug is the slug of no customer ends, whatever its
\* prompt, with the result {error: 'Customer not found', status: 404} and
\* the response 404, without a session, a classifier or generation call or
\* a message (a failing customer query apart).
C22_UnknownTenantIs404 ==
    \A r \in Slots :
        (turn[r] # NoTurn /\ UnknownTenant(turn[r]) /\ pc[r] = "done"
            /\ turn[r].thrown.at = "none") =>
            /\ turn[r].result = [error |-> <<"Customer not found">>, status |-> 404]
            /\ resp[r].status = 404
            /\ resp[r].body = [error |-> <<"Customer not found">>]
            /\ fx[r] \cap AfterTenant = {}
            /\ \E d \in Databases :
                  chat_sessions = d.sessions /\ chat_messages = d.messages

\* the turn asked for a companion that its (existing) tenant does not have,
\* and getCompanion has answered
UnknownCompanion(r) ==
    /\ turn[r].customer.id # ""
    /\ turn[r].companion # ""
    /\ <<turn[r].customer.id, turn[r].companion>> \notin CompanionKeys
    /\ pc[r] # "getCompanion"
    /\ turn[r].thrown.at # "getCompanion"

\* C23: a turn that names a companion its tenant does not have goes on with
\* the tenant's own name, greeting, system prompt and knowledge base into
\* getOrCreateSession, the classification and the generation; it ends in an
\* error only where a query or the generation fails, and otherwise with a
\* response, the generated one unless the classifier blocked the prompt.
C23_UnknownCompanionFallsBack ==
    \A r \in Slots :
        (turn[r] # NoTurn /\ UnknownCompanion(r)) =>
            LET t == turn[r]
                customer == CustomerRow(t.slug)
            IN /\ t.customer = customer
               /\ t.systemPrompt = customer.system_prompt
               /\ t.greeting = customer.greeting
               /\ t.aiName = customer.ai_name
               /\ t.fullSystemPrompt =
                     buildSystemPrompt(customer.system_prompt, customer.knowledge_base,
                                       customer.greeting)
               /\ "getOrCreateSession" \in fx[r]
               /\ pc[r] \in {"selectSession", "insertSession", "analyzePromptSafety",
                              "updateSuspicious", "updateElevated"} \cup AfterUpdate
               /\ (t.verdict.riskLevel \in 1..6) => Proceeds(r)
               /\ (pc[r] = "done" /\ t.thrown.at = "none") =>
                     /\ "response" \in DOMAIN t.result
                     /\ resp[r].status = 200
                     /\ t.verdict.riskLevel \in 1..6 => Answered(t)

\* an answered turn of the restaurant that asked for the companion astrid
C23_Witness ==
    /\ turn["r1"] # NoTurn
    /\ pc["r1"] = "done"
    /\ turn["r1"].customer.id = "c-bella"
    /\ turn["r1"].companion = "astrid"
    /\ turn["r1"].aiName = "Sofia"
    /\ Answered(turn["r1"])
    /\ turn["r1"].messages[1].content = <<"Du ar Sofia", "KUNSKAPSBAS", "MENY",
                                           "Din halsning ar", "Ciao">>
    /\ resp["r1"].status = 200

\* field f of the persona: the companion's value if a companion was asked
\* for, found, and has one, and the tenant's value otherwise
Merged(t, companionField, customerField) ==
    LET customer == CustomerRow(t.slug)
        key == <<customer.id, t.companion>>
    IN IF t.companion # "" /\ key \in CompanionKeys
          /\ CompanionRow(key[1], key[2])[companionField] # ""
       THEN CompanionRow(key[1], key[2])[companionField]
       ELSE customer[customerField]

\* C24: once the configuration of a turn is known, its name, greeting and
\* system prompt are each the companion's value where a found companion has
\* one and the tenant's otherwise, the knowledge base in the built prompt is
\* the tenant's, without a companion key all are the tenant's, and this is
\* the persona the session and the generation are given.
C24_PersonaIsMergeOverTenant ==
    \A r \in Slots :
        (turn[r] # NoTurn /\ "getOrCreateSession" \in fx[r]) =>
            LET t == turn[r]
                customer == CustomerRow(t.slug)
            IN /\ t.aiName = Merged(t, "name", "ai_name")
               /\ t.greeting = Merged(t, "greeting", "greeting")
               /\ t.systemPrompt = Merged(t, "system_prompt", "system_prompt")
               /\ t.fullSystemPrompt =
                     buildSystemPrompt(t.systemPrompt, customer.knowledge_base, t.greeting)
               /\ t.companion = "" =>
                     /\ t.aiName = customer.ai_name
                     /\ t.greeting = customer.greeting
                     /\ t.systemPrompt = customer.system_prompt
               /\ t.isNew => t.session.metadata.ai_name = t.aiName
               /\ t.messages # << >> =>
                     t.messages[1] = [role |-> "system", content |-> t.fullSystemPrompt]

\* the restaurant's companion luigi has a name and nothing else: the
\* generation is sent the restaurant's prompt, knowledge and greeting
C24_Witness ==
    /\ turn["r1"] # NoTurn
    /\ turn["r1"].customer.id = "c-bella"
    /\ turn["r1"].companion = "luigi"
    /\ turn["r1"].aiName = "Luigi"
    /\ turn["r1"].greeting = "Ciao"
    /\ turn["r1"].messages # << >>
    /\ turn["r1"].messages[1].content = <<"Du ar Sofia", "KUNSKAPSBAS", "MENY",
                                           "Din halsning ar", "Ciao">>

\* C25: the response to a turn that the judge blocked has status 200 and a
\* body with response (the deflection), sessionId and the metrics, and in
\* addition blocked = true and the riskLevel of the verdict.
C25_BlockedBodyCarriesFlags ==
    \A r \in Slots :
        (turn[r] # NoTurn /\ pc[r] = "done" /\ turn[r].verdict.riskLevel >= 7) =>
            LET body == resp[r].body
            IN /\ resp[r].status = 200
               /\ {"response", "sessionId", "_metrics"} \subseteq DOMAIN body
               /\ body.response = getBlockedResponse(getCustomerType(turn[r].slug))
               /\ body.sessionId = turn[r].session.id
               /\ "blocked" \in DOMAIN body /\ body.blocked = TRUE
               /\ "riskLevel" \in DOMAIN body
               /\ body.riskLevel = turn[r].verdict.riskLevel

\* how a request that has been answered ended
Ending(r) ==
    IF turn[r] = NoTurn THEN "BLOCKED"
    ELSE IF "blocked" \in DOMAIN turn[r].result THEN "BLOCKED"
    ELSE IF Answered(turn[r]) THEN "DONE"
    ELSE "FAILED"

\* C26: the steps of a request are taken in the order gate, tenant,
\* persona, session, classification; an answered request is a rate-limit
\* denial, a risk block, a generated reply or a failure; and a risk block
\* comes only after the tenant was resolved and the session obtained.
C26_BlockOnlyAfterSession ==
    \A r \in Slots :
        /\ fx[r] # {} => "rateLimit" \in fx[r]
        /\ fx[r] \cap AfterTenant # {} => "getCustomerBySlug" \in fx[r]
        /\ "analyzePromptSafety" \in fx[r] => "getOrCreateSession" \in fx[r]
        /\ fx[r] \cap {"updateSession", "getMessages", "saveMessage", "callMistral"} # {}
              => "analyzePromptSafety" \in fx[r]
        /\ pc[r] = "done" =>
              /\ Ending(r) = "DONE" => resp[r].status = 200
              /\ Ending(r) = "FAILED" => resp[r].status \in {400, 404, 429, 500}
              /\ (Ending(r) = "BLOCKED" /\ turn[r] = NoTurn) =>
                    resp[r].status = 429 /\ fx[r] = {"rateLimit"}
              /\ (Ending(r) = "BLOCKED" /\ turn[r] # NoTurn) =>
                    /\ resp[r].status = 200
                    /\ turn[r].customer.id # ""
                    /\ turn[r].session.id # ""
                    /\ turn[r].verdict.isSuspicious

\* C27: every request that is past the gate is answered in the end: no
\* await of handleChat lasts forever.
C27_EveryTurnEnds ==
    \A r \in Slots : (pc[r] \notin {"idle", "done"}) ~> (pc[r] = "done")

\* the messages callMistral makes of row i of its history: the place of the
\* first of them in the list sent, and how many they are
RECURSIVE PlaceOf(_, _)
PlaceOf(history, i) ==
    IF i = 1 THEN 2
    ELSE PlaceOf(history, i - 1)
         + Len(HistoryMessages(<<history[i - 1]>>))

\* C28: each row of the history that is recorded with sender_type 'human'
\* stands in the list sent to the generation backend as a user message
\* quoting the row followed by the assistant's acknowledgement, whatever
\* the row's role is.
C28_OperatorRowsBecomePairs ==
    mistralCall.kind = "call" =>
        LET history == mistralCall.history
            sent == mistralCall.result.messages
        IN \A i \in 1..Len(history) :
              history[i].sender_type = "human" =>
                 LET p == PlaceOf(history, i)
                 IN /\ p + 1 <= Len(sent)
                    /\ sent[p] = [role |-> "user",
                                  content |-> <<"[PERSONALENS SVAR: ">>
                                              \o history[i].content \o <<"]">>]
                    /\ sent[p + 1] = [role |-> "assistant",
                                      content |-> <<"Jag noterar att personalen har svarat.">>]

\* user, assistant, user, ... from the first message of a list on
Alternates(list) ==
    \A i \in 1..Len(list) :
        list[i].role = IF i % 2 = 1 THEN "user" ELSE "assistant"

\* C29: the list a turn sends to the generation backend is the system
\* message followed by messages whose roles alternate, user first, the
\* last being the user message of the turn, whatever transcript earlier
\* turns left in the session.
C29_SentMessagesAlternate ==
    \A r \in Slots :
        (turn[r] # NoTurn /\ turn[r].messages # << >>) =>
            LET sent == turn[r].messages
            IN /\ sent[1] = [role |-> "system", content |-> turn[r].fullSystemPrompt]
               /\ sent[Len(sent)] = [role |-> "user", content |-> turn[r].prompt]
               /\ Alternates(Tail(sent))

\* the chunks of a stream that have content
ContentChunks(chunks) == {i \in 1..Len(chunks) : chunks[i].content # << >>}

\* C30: of a generation that streamed, ttft is the elapsed time at the
\* first chunk that has content (0 when no chunk has), and the text is the
\* contents of the chunks put together in the order of arrival.
C30_TtftAtFirstContent ==
    (mistralCall.kind = "call" /\ mistralCall.outcome.kind = "stream") =>
        LET chunks == mistralCall.outcome.chunks
        IN /\ mistralCall.result.ttft =
                 IF ContentChunks(chunks) = {} THEN 0
                 ELSE chunks[SetMin(ContentChunks(chunks))].at
           /\ mistralCall.result.response = Concat(chunks)

\* what a lookup returned without the latency measured for it
Configuration(value) == [f \in DOMAIN value \ {"dbTime"} |-> value[f]]

\* the lookups that returned
Returned == {i \in 1..Len(lookups) : ~lookups[i].threw}

ObjectsIn(text) == {i \in 1..Len(text) : text[i] \in {"objA", "objB"}}

\* the first well-formed JSON object of a reply
FirstObject(b) ==
    IF b.content[SetMin(ObjectsIn(b.content))] = "objA" THEN b.objA ELSE b.objB

\* C32: when the backend's reply holds a well-formed JSON object, whatever
\* text and braces stand before and after it, the verdict's riskLevel is
\* the one of the first such object (brought into 1..10).
C32_FirstObjectDecides ==
    (/\ judgeOut.kind = "verdict"
     /\ StrLen(judgeIn.prompt) >= 10
     /\ judgeIn.backend.kind = "reply"
     /\ ObjectsIn(judgeIn.backend.content) # {}) =>
        judgeOut.verdict.riskLevel =
            Min(10, Max(1, OrOne(parseInt(FirstObject(judgeIn.backend).riskLevel))))

\* C33: once the history of a turn is fixed, it is the request's history
\* when that is a non-empty array, and then the stored transcript was not
\* read; otherwise it is the stored transcript of a session that existed,
\* and empty for a session the turn created.  The generation is sent this
\* history and no other, and in the transcript the turn's own user message
\* stands after the rows that were read.
C33_HistorySelection ==
    \A r \in Slots :
        (turn[r] # NoTurn /\ "saveMessage" \in fx[r]) =>
            LET t == turn[r]
            IN /\ t.clientHistory # << >> =>
                     /\ t.chatHistory = t.clientHistory
                     /\ "getMessages" \notin fx[r]
               /\ (t.clientHistory = << >> /\ t.isNew) =>
                     /\ t.chatHistory = << >>
                     /\ "getMessages" \notin fx[r]
               /\ (t.clientHistory = << >> /\ ~t.isNew) =>
                     /\ t.chatHistory = RowsBefore(t)
                     /\ "getMessages" \in fx[r]
               /\ t.messages # << >> =>
                     t.messages = <<[role |-> "system", content |-> t.fullSystemPrompt]>>
                                  \o HistoryMessages(t.chatHistory)
                                  \o <<[role |-> "user", content |-> t.prompt]>>
               /\ ("callMistral" \in fx[r] /\ "getMessages" \in fx[r]) =>
                     /\ Len(Transcript(t)) > Len(t.chatHistory)
                     /\ SubSeq(Transcript(t), 1, Len(t.chatHistory)) = t.chatHistory
                     /\ Transcript(t)[Len(t.chatHistory) + 1] = UserMessage(t)

C33_Witness ==
    /\ turn["r1"] # NoTurn
    /\ pc["r1"] = "done"
    /\ Answered(turn["r1"])
    /\ ~turn["r1"].isNew
    /\ RowsBefore(turn["r1"]) # << >>
    /\ turn["r1"].clientHistory # << >>
    /\ turn["r1"].chatHistory # RowsBefore(turn["r1"])

\* the session of the turn belongs to another tenant than the one the turn
\* resolved
Foreign(t) ==
    /\ t.session.id \in DOMAIN chat_sessions
    /\ chat_sessions[t.session.id].customer_id # t.customer.id

\* C34: a turn whose session is owned by another tenant than its own does
\* not read the transcript of that session and appends no message to it.
C34_SessionsStayWithTheirTenant ==
    \A r \in Slots :
        (turn[r] # NoTurn /\ turn[r].session.id # "" /\ Foreign(turn[r])) =>
            /\ "getMessages" \notin fx[r]
            /\ Transcript(turn[r]) = RowsBefore(turn[r])

\* C35: every checkRateLimit call returns what it would have returned had
\* the sweep never run.
C35_SweepUnobservable ==
    lastCheck # NoCall => lastCheck.result = lastCheck.plain

C35_Witness ==
    /\ lastCheck # NoCall
    /\ lastCheck.swept
    /\ lastCheck.result.allowed

\* C36: a denied call leaves the Map as it was, and a call of a key whose
\* entry has now - windowStart > windowMs is admitted, whether or not the
\* key was denied before.
C36_DenialLeavesTableUnchanged ==
    lastCheck # NoCall =>
        /\ ~lastCheck.result.allowed => lastCheck.after = lastCheck.before
        /\ (lastCheck.had /\ lastCheck.at - lastCheck.pre.windowStart > windowMs) =>
              /\ lastCheck.result.allowed
              /\ lastCheck.post = [count |-> 1, windowStart |-> lastCheck.at]

\* a key that was denied and, once its window was over, admitted
C36_Witness ==
    /\ lastCheck # NoCall
    /\ lastCheck.had
    /\ lastCheck.deniedBefore
    /\ lastCheck.at - lastCheck.pre.windowStart > windowMs
    /\ lastCheck.result.allowed

\* how many rows of a transcript have the role
RoleCount(T, role) == Cardinality({i \in 1..Len(T) : T[i].role = role})

\* in every transcript the assistant rows are no more than the user rows,
\* and a turn that has written its assistant row wrote its user row before
AssistantAfterUser ==
    /\ \A s \in DOMAIN chat_sessions :
          LET T == getMessages(chat_messages, s)
          IN RoleCount(T, "assistant") <= RoleCount(T, "user")
    /\ \A r \in Slots :
          (turn[r] # NoTurn /\ Answered(turn[r])) =>
              LET T == Transcript(turn[r])
              IN \E i, j \in 1..Len(T) :
                    /\ i < j
                    /\ T[i] = UserMessage(turn[r])
                    /\ T[j] = AssistantMessage(turn[r])

\* a step keeps every row of chat_messages where it is and as it is
AppendOnly ==
    /\ Len(chat_messages') >= Len(chat_messages)
    /\ SubSeq(chat_messages', 1, Len(chat_messages)) = chat_messages

\* C37: with turns in flight together, also on one session, every
\* transcript has at most as many assistant rows as user rows, the
\* assistant row of a turn stands after the user row of that turn, and no
\* step removes or changes a row.
C37_TranscriptAppendOnly == []AssistantAfterUser /\ [][AppendOnly]_vars

\* two turns on one session, both answered, their user rows written before
\* either assistant row
C37_Witness ==
    /\ \A r \in Slots : turn[r] # NoTurn /\ pc[r] = "done" /\ Answered(turn[r])
    /\ turn["r1"].session.id = turn["r2"].session.id
    /\ Len(Transcript(turn["r1"])) = 4
    /\ Transcript(turn["r1"])[2].role = "user"
    /\ Transcript(turn["r1"])[3].role = "assistant"

\* C38: a result of handleChat that is no error, generated or blocked,
\* carries the id of a session that is in chat_sessions.
C38_ResultSessionExists ==
    \A r \in Slots :
        (turn[r] # NoTurn /\ "response" \in DOMAIN turn[r].result) =>
            turn[r].result.sessionId \in DOMAIN chat_sessions

\* a result is a deflection exactly when the quick filter or the verdict of
\* the turn itself says so, whatever flags the session has stored
BlockedByOwnVerdict ==
    \A r \in Slots :
        (turn[r] # NoTurn /\ "response" \in DOMAIN turn[r].result) =>
            ("blocked" \in DOMAIN turn[r].result
                <=> \/ quickSafetyCheck(turn[r].prompt).blocked
                    \/ turn[r].verdict.riskLevel >= 7)

\* a step keeps every session, keeps a stored suspicious = true and leaves
\* needs_human as it is
FlagsKept ==
    \A s \in DOMAIN chat_sessions :
        /\ s \in DOMAIN chat_sessions'
        /\ chat_sessions[s].suspicious => chat_sessions'[s].suspicious
        /\ chat_sessions'[s].needs_human = chat_sessions[s].needs_human

\* C39: a stored suspicious = true stays true through every later step,
\* needs_human is never changed, and whether a turn is blocked depends on
\* its own prompt and verdict only.
C39_SecurityStateNeverCleared == []BlockedByOwnVerdict /\ [][FlagsKept]_vars

\* a turn on a session that an earlier turn flagged is answered, with an
\* elevated level stored, and the flag is still there
C39_Witness ==
    /\ turn["r1"] # NoTurn
    /\ pc["r1"] = "done"
    /\ Answered(turn["r1"])
    /\ turn["r1"].session.suspicious
    /\ turn["r1"].verdict.riskLevel = 5
    /\ chat_sessions[turn["r1"].session.id].risk_level = 5
    /\ chat_sessions[turn["r1"].session.id].suspicious

====
